---- MODULE Spec2Model ----
(***************************************************************************)
(* Model of elastic-agent-system-metrics:                                  *)
(*   - metric/system/process (process.go): Stats.Get / GetOne / GetSelf,   *)
(*     pidIter, pidFill, cacheCmdLine, getProcessEvent, matchProcess,      *)
(*     includeTopProcesses;                                                *)
(*   - metric/system/cgroup/cgv2/io.go: getIOStats, parseStatLine.         *)
(***************************************************************************)
EXTENDS Integers, Sequences, FiniteSets, TLC

\* ------------------------------------------------------------------ bounds
MaxStart == 1

PIDs == {1, 2}
\* os.Getpid(): the agent's own process; it is alive for as long as it samples.
SelfPid == 1
Names == {"a", "b"}

VARIABLES
    cfg,      \* the Stats configuration, fixed after Init()
    procs,    \* the operating system's process table: pid -> process
    epoch,    \* the start time handed to the last process started
    history,  \* procStats.ProcsMap: pid -> last ProcState
    ret,      \* what the last engine call did and returned
    topCfg,   \* includeTopProcesses alone: the IncludeTop configuration,
    topIn,    \*   the list passed in,
    topOut,   \*   and the list returned
    ioFile,   \* getIOStats: the lines of io.stat,
    ioResolve, \*  the resolveDevIDs argument,
    ioFound,  \*   the devices whose name the host resolves,
    ioPos,    \*   the number of lines the scanner has read,
    ioStats,  \*   the stats map,
    ioRet,    \*   and what getIOStats returned
    ioHost,   \* the host of IOSubsystem.Get: io.pressure and the device lookups that fail
    ioSub,    \* the IOSubsystem and what its Get did and returned
    trk,      \* ProcsTrack under concurrent callers: the callers and the mutex
    gps,      \* GetPIDState: the platform, the processes, the call and its result
    netc,     \* MapProcNetCountersWithFilter: the counters, the filter, the map returned
    hw,       \* ReportSensors: the device, its directory, and what was returned
    race      \* concurrent GetOne calls on one PID: the callers, the clock, the entry

procVars == <<cfg, procs, epoch, history, ret>>
topVars == <<topCfg, topIn, topOut>>
ioVars == <<ioFile, ioResolve, ioFound, ioPos, ioStats, ioRet, ioHost, ioSub>>
\* the variables of the other parts of the model
auxVars == <<trk, gps, netc, hw, race>>

\* ------------------------------------------------------------- opt values
None == [set |-> FALSE, v |-> 0]
Some(x) == [set |-> TRUE, v |-> x]
ValueOr(o, d) == IF o.set THEN o.v ELSE d

Max(a, b) == IF a >= b THEN a ELSE b
Min(a, b) == IF a <= b THEN a ELSE b

\* A cgroup snapshot of a process: CPU usage and the derived percentage.
NoCgroup == [set |-> FALSE, usage |-> 0, pct |-> None]

\* The zero ProcState.
ZeroState ==
    [Pid |-> None, Name |-> "", StartTime |-> 0, Ticks |-> None, Value |-> None,
     Pct |-> None, Rss |-> None, Cgroup |-> NoCgroup,
     Network |-> FALSE, Args |-> 0, Cmdline |-> 0, Env |-> 0]

\* ------------------------------------------------------------ environment
\* A dead slot of the process table.
NoProc == [alive |-> FALSE, name |-> "", start |-> 0, ticks |-> 0, rss |-> 0]

\* The arguments and the environment of a process are those of its
\* incarnation: two processes that reuse a PID differ in them.  0 is "empty".
ArgsOf(p) == 1 + procs[p].start
EnvOf(p) == 1 + procs[p].start

\* The points where one PID's sample can fail in a call.
Fails == {"none", "info", "fill", "cgroup", "net", "convert"}

\* ----------------------------------------------------------- configuration
\* A process pattern is modelled by the set of names it matches.
PatA == {"a"}
PatAll == {"a", "b"}

Configs ==
    { \* one pattern, cgroups and network on, tick fields dropped, top-N on
      [Procs |-> <<PatA>>, EnableCgroups |-> TRUE, EnableNetwork |-> TRUE,
       CPUTicks |-> FALSE, CacheCmdLine |-> TRUE, skipExtended |-> FALSE,
       IgnoreRootCgroups |-> FALSE,
       IncludeTop |-> [Enabled |-> TRUE, ByCPU |-> 1, ByMemory |-> 1]],
      \* every name matches, no cgroups, no network, ticks reported, top-N off
      [Procs |-> <<PatAll>>, EnableCgroups |-> FALSE, EnableNetwork |-> FALSE,
       CPUTicks |-> TRUE, CacheCmdLine |-> FALSE, skipExtended |-> FALSE,
       IgnoreRootCgroups |-> FALSE,
       IncludeTop |-> [Enabled |-> FALSE, ByCPU |-> 1, ByMemory |-> 0]],
      \* no process pattern configured
      [Procs |-> <<>>, EnableCgroups |-> TRUE, EnableNetwork |-> FALSE,
       CPUTicks |-> TRUE, CacheCmdLine |-> FALSE, skipExtended |-> FALSE,
       IgnoreRootCgroups |-> FALSE,
       IncludeTop |-> [Enabled |-> TRUE, ByCPU |-> 0, ByMemory |-> 0]],
      \* ListStates(): every name matches, basic PID info only
      [Procs |-> <<PatAll>>, EnableCgroups |-> FALSE, EnableNetwork |-> FALSE,
       CPUTicks |-> FALSE, CacheCmdLine |-> FALSE, skipExtended |-> TRUE,
       IgnoreRootCgroups |-> FALSE,
       IncludeTop |-> [Enabled |-> FALSE, ByCPU |-> 0, ByMemory |-> 0]] }

\* ---------------------------------------------------------------- ProcsMap
GetPid(hist, pid) ==
    IF pid \in DOMAIN hist THEN [last |-> hist[pid], ok |-> TRUE]
    ELSE [last |-> ZeroState, ok |-> FALSE]

SetPid(hist, pid, ps) == [p \in (DOMAIN hist) \cup {pid} |-> IF p = pid THEN ps ELSE hist[p]]

SetMap(hist, pidMap) == pidMap

\* -------------------------------------------------------------- OS fetches
GetInfoForPid(pid, fail) ==
    IF fail = "info" \/ ~procs[pid].alive
    THEN [status |-> ZeroState, err |-> TRUE]
    ELSE [status |-> [ZeroState EXCEPT !.Pid = Some(pid), !.Name = procs[pid].name,
                                       !.StartTime = procs[pid].start],
          err |-> FALSE]

FillPidMetrics(pid, status, fail) ==
    IF fail = "fill" THEN [status |-> status, err |-> TRUE]
    ELSE [status |-> [status EXCEPT !.Ticks = Some(procs[pid].ticks),
                                    !.Rss = Some(procs[pid].rss),
                                    !.Args = IF status.Args = 0 THEN ArgsOf(pid) ELSE @,
                                    !.Env = IF status.Env = 0 THEN EnvOf(pid) ELSE @],
          err |-> FALSE]

\* The cgroup path of a process: the agent samples from inside a container,
\* where it is itself at the root of the hierarchy.
CgroupPathOf(pid) == IF pid = SelfPid THEN "/" ELSE "/system.slice"

\* NotApplicable (an error of GetStatsForPid) for the root cgroup when
\* IgnoreRootCgroups is set; a read error where the call fails
GetStatsForPid(pid, fail) ==
    IF (cfg.IgnoreRootCgroups /\ CgroupPathOf(pid) = "/") \/ fail = "cgroup"
    THEN [cg |-> NoCgroup, err |-> TRUE]
    ELSE [cg |-> [set |-> TRUE, usage |-> procs[pid].ticks, pct |-> None], err |-> FALSE]

FillPercentages(cg, lastCg) ==
    IF lastCg.set
    THEN [cg EXCEPT !.pct = Some(Max(0, cg.usage - lastCg.usage))]
    ELSE cg

GetProcCPUPercentage(s0, s1) ==
    IF s1.StartTime # s0.StartTime
    THEN s1
    ELSE [s1 EXCEPT !.Pct = Some(Max(0, ValueOr(s1.Ticks, 0) - ValueOr(s0.Ticks, 0)))]

\* --------------------------------------------------------------- process.go
matchProcess(name) == \E i \in 1..Len(cfg.Procs) : name \in cfg.Procs[i]

cacheCmdLine(in) ==
    LET prev == GetPid(history, ValueOr(in.Pid, 0)) IN
    IF prev.ok
    THEN [in EXCEPT !.Args = IF cfg.CacheCmdLine THEN prev.last.Args ELSE @,
                    !.Cmdline = IF cfg.CacheCmdLine THEN prev.last.Cmdline ELSE @,
                    !.Env = prev.last.Env]
    ELSE in

\* What pidFill hands back: the ProcState, the "saved" flag, the error ("" is
\* nil), and the calls it made, in order ("f!err" is a call of f that returned
\* an error).
FillRet(status, saved, err, steps) ==
    [status |-> status, saved |-> saved, err |-> err, steps |-> steps]

\* cgroupsProcessor with the cgroup read error taken as a soft one.
cgroupsProcessor_soft(status, got, fail) ==
    IF ~cfg.EnableCgroups THEN [status |-> status, err |-> "", steps |-> <<>>]
    ELSE
      LET cgr == GetStatsForPid(ValueOr(status.Pid, 0), fail) IN
      IF cgr.err
      THEN [status |-> status, err |-> "", steps |-> <<"GetStatsForPid!err">>]
      ELSE IF got.ok
      THEN [status |-> [status EXCEPT !.Cgroup = FillPercentages(cgr.cg, got.last.Cgroup)],
            err |-> "", steps |-> <<"GetStatsForPid", "FillPercentages">>]
      ELSE [status |-> [status EXCEPT !.Cgroup = cgr.cg], err |-> "",
            steps |-> <<"GetStatsForPid">>]

\* lines 242-251: the cgroups processor
cgroupsProcessor(status, got, fail) ==
    IF ~cfg.EnableCgroups THEN [status |-> status, err |-> "", steps |-> <<>>]
    ELSE
      LET cgr == GetStatsForPid(ValueOr(status.Pid, 0), fail) IN
      IF cgr.err
      THEN [status |-> status, err |-> "cgroups.GetStatsForPid",
            steps |-> <<"GetStatsForPid!err">>]
      ELSE IF got.ok
      THEN [status |-> [status EXCEPT !.Cgroup = FillPercentages(cgr.cg, got.last.Cgroup)],
            err |-> "", steps |-> <<"GetStatsForPid", "FillPercentages">>]
      ELSE [status |-> [status EXCEPT !.Cgroup = cgr.cg], err |-> "",
            steps |-> <<"GetStatsForPid">>]

\* lines 254-268: network data; its errors are soft
networkData(status, fail) ==
    IF ~cfg.EnableNetwork THEN [status |-> status, steps |-> <<>>]
    ELSE IF fail = "net" THEN [status |-> status, steps |-> <<"NetworkCounters!err">>]
    ELSE [status |-> [status EXCEPT !.Network = TRUE], steps |-> <<"NetworkCounters">>]

\* cpuPercentages without the "if ok" guard of line 273.
cpuPercentages_always(status, got) ==
    LET s1 == IF status.Ticks.set THEN [status EXCEPT !.Value = Some(status.Ticks.v)]
              ELSE status
    IN [status |-> GetProcCPUPercentage(got.last, s1),
        steps |-> <<"GetProcCPUPercentage">>]

\* lines 270-275: the CPU value and the percentages against the last sample
cpuPercentages(status, got) ==
    LET s1 == IF status.Ticks.set THEN [status EXCEPT !.Value = Some(status.Ticks.v)]
              ELSE status
    IN IF got.ok
       THEN [status |-> GetProcCPUPercentage(got.last, s1),
             steps |-> <<"GetProcCPUPercentage">>]
       ELSE [status |-> s1, steps |-> <<>>]

\* pidFillPost that computes the CPU percentages before it reads the cgroups.
pidFillPost_percentFirst(st, fail, steps0) ==
    LET got == GetPid(history, ValueOr(st.Pid, 0))
        steps1 == steps0 \o <<"GetPid">>
        cpu == cpuPercentages(st, got)
        cg == cgroupsProcessor(cpu.status, got, fail)
    IN
    IF cg.err # "" THEN FillRet(cg.status, TRUE, cg.err, steps1 \o cpu.steps \o cg.steps)
    ELSE
      LET net == networkData(cg.status, fail)
      IN FillRet(net.status, TRUE, "", steps1 \o cpu.steps \o cg.steps \o net.steps)

\* lines 239-277: postprocess with cgroups, network and percentages
pidFillPost(st, fail, steps0) ==
    LET got == GetPid(history, ValueOr(st.Pid, 0))
        steps1 == steps0 \o <<"GetPid">>
        cg == cgroupsProcessor(st, got, fail)
    IN
    IF cg.err # "" THEN FillRet(cg.status, TRUE, cg.err, steps1 \o cg.steps)
    ELSE
      LET net == networkData(cg.status, fail)
          cpu == cpuPercentages(net.status, got)
      IN FillRet(cpu.status, TRUE, "", steps1 \o cg.steps \o net.steps \o cpu.steps)

\* filteredOut with the filter never applied.
filteredOut_never(filter, name) == FALSE

\* lines 223-228: the name filter; TRUE when the process is filtered out
filteredOut(filter, name) == filter /\ ~matchProcess(name)

pidFill(pid, filter, fail) ==
    LET info == GetInfoForPid(pid, fail) IN
    IF info.err
    THEN FillRet(info.status, TRUE, "GetInfoForPid", <<"GetInfoForPid!err">>)
    ELSE IF cfg.skipExtended
    THEN FillRet(info.status, TRUE, "", <<"GetInfoForPid">>)
    ELSE
      LET s1 == cacheCmdLine(info.status)
          steps1 == <<"GetInfoForPid", "cacheCmdLine">>
                    \o (IF filter THEN <<"matchProcess">> ELSE <<>>)
      IN
      IF filteredOut(filter, s1.Name)
      THEN FillRet(s1, FALSE, "", steps1)
      ELSE
        LET fill == FillPidMetrics(pid, s1, fail) IN
        IF fill.err
        THEN FillRet(fill.status, TRUE, "FillPidMetrics", steps1 \o <<"FillPidMetrics!err">>)
        ELSE
          LET s2 == IF fill.status.Args > 0 /\ fill.status.Cmdline = 0
                    THEN [fill.status EXCEPT !.Cmdline = fill.status.Args]
                    ELSE fill.status
          IN pidFillPost(s2, fail, steps1 \o <<"FillPidMetrics">>)

\* typeconv.Convert of a ProcState: a map that holds a key for every field that
\* is set, and no key for an unset one.
Convert(process) ==
    LET keys == {"pid", "name"}
                \cup (IF process.Ticks.set THEN {"cpu.total.ticks"} ELSE {})
                \cup (IF process.Value.set THEN {"cpu.total.value"} ELSE {})
                \cup (IF process.Pct.set THEN {"cpu.total.pct"} ELSE {})
                \cup (IF process.Rss.set THEN {"memory.rss.bytes"} ELSE {})
                \cup (IF process.Cgroup.set THEN {"cgroup.cpu.usage"} ELSE {})
                \cup (IF process.Cgroup.pct.set THEN {"cgroup.cpu.pct"} ELSE {})
    IN [k \in keys |->
          CASE k = "pid" -> ValueOr(process.Pid, 0)
            [] k = "name" -> process.Name
            [] k = "cpu.total.ticks" -> process.Ticks.v
            [] k = "cpu.total.value" -> process.Value.v
            [] k = "cpu.total.pct" -> process.Pct.v
            [] k = "memory.rss.bytes" -> process.Rss.v
            [] k = "cgroup.cpu.usage" -> process.Cgroup.usage
            [] k = "cgroup.cpu.pct" -> process.Cgroup.pct.v]

\* The event, the conversion error, and the ProcState the pointer argument is
\* left with.
getProcessEvent(process, fail) ==
    LET p1 == IF ~cfg.CPUTicks THEN [process EXCEPT !.Ticks = None] ELSE process
        proc == Convert(p1)
        net == IF cfg.EnableNetwork /\ p1.Network
               THEN [k \in (DOMAIN proc) \cup {"network"} |->
                        IF k = "network" THEN "counters" ELSE proc[k]]
               ELSE proc
    IN [proc |-> net, err |-> (fail = "convert"), process |-> p1]

\* ------------------------------------------------------ includeTopProcesses
isProcessInSlice(processes, proc) ==
    \E i \in 1..Len(processes) : processes[i].Pid = proc.Pid

CPUKey(p) == ValueOr(p.Pct, 0)
MemKey(p) == ValueOr(p.Rss, 0)

Perms(n) == {f \in [1..n -> 1..n] : \A i, j \in 1..n : i # j => f[i] # f[j]}

\* sort.Slice: the slice reordered so that less(i+1, i) holds nowhere; the sort
\* is not stable, so elements that compare equal may end in any order.
sortSliceCPU(s) ==
    {t \in {[i \in 1..Len(s) |-> s[f[i]]] : f \in Perms(Len(s))} :
        \A i \in 1..(Len(s) - 1) : ~(CPUKey(t[i + 1]) > CPUKey(t[i]))}

sortSliceMem(s) ==
    {t \in {[i \in 1..Len(s) |-> s[f[i]]] : f \in Perms(Len(s))} :
        \A i \in 1..(Len(s) - 1) : ~(MemKey(t[i + 1]) > MemKey(t[i]))}

RECURSIVE appendNew_dup(_, _)
\* appendNew without the isProcessInSlice test.
appendNew_dup(result, sel) ==
    IF sel = <<>> THEN result
    ELSE appendNew_dup(Append(result, Head(sel)), Tail(sel))

RECURSIVE appendNew(_, _)
\* lines 353-358: append the elements of sel that are not yet in result
appendNew(result, sel) ==
    IF sel = <<>> THEN result
    ELSE appendNew(IF isProcessInSlice(result, Head(sel)) THEN result
                   ELSE Append(result, Head(sel)),
                   Tail(sel))

\* topDisabled that looks at the two selectors only.
topDisabled_noEnabled(top) == top.ByCPU = 0 /\ top.ByMemory = 0

\* lines 325-326: top-N selection is off
topDisabled(top) == ~top.Enabled \/ (top.ByCPU = 0 /\ top.ByMemory = 0)

\* includeTopProcesses that takes the whole list sorted by CPU, whatever ByCPU.
includeTopProcesses_noCut(top, processes) ==
    IF topDisabled(top)
    THEN {processes}
    ELSE
      LET n == Len(processes)
          byCPU == IF top.ByCPU > 0 THEN sortSliceCPU(processes) ELSE {processes}
      IN UNION {
           LET result == IF top.ByCPU > 0 THEN c ELSE <<>>
           IN IF top.ByMemory > 0
              THEN {appendNew(result, SubSeq(m, 1, Min(top.ByMemory, n))) :
                      m \in sortSliceMem(c)}
              ELSE {result}
           : c \in byCPU }

\* The set of lists includeTopProcesses can return for the given IncludeTop
\* configuration and input.
includeTopProcesses(top, processes) ==
    IF topDisabled(top)
    THEN {processes}
    ELSE
      LET n == Len(processes)
          byCPU == IF top.ByCPU > 0 THEN sortSliceCPU(processes) ELSE {processes}
      IN UNION {
           LET result == IF top.ByCPU > 0
                         THEN SubSeq(c, 1, Min(top.ByCPU, n)) ELSE <<>>
           IN IF top.ByMemory > 0
              THEN {appendNew(result, SubSeq(m, 1, Min(top.ByMemory, n))) :
                      m \in sortSliceMem(c)}
              ELSE {result}
           : c \in byCPU }

\* ------------------------------------------------------- the batch sampler
\* pidIter that also keeps the processes the filter rejected.
pidIter_keepUnmatched(pid, procMap, proclist, fail) ==
    LET r == pidFill(pid, TRUE, fail) IN
    IF r.err # "" THEN [procMap |-> procMap, proclist |-> proclist, fill |-> r]
    ELSE [procMap |-> SetPid(procMap, pid, r.status),
          proclist |-> Append(proclist, r.status), fill |-> r]

pidIter(pid, procMap, proclist, fail) ==
    LET r == pidFill(pid, TRUE, fail) IN
    IF r.err # "" THEN [procMap |-> procMap, proclist |-> proclist, fill |-> r]
    ELSE IF ~r.saved THEN [procMap |-> procMap, proclist |-> proclist, fill |-> r]
    ELSE [procMap |-> SetPid(procMap, pid, r.status),
          proclist |-> Append(proclist, r.status), fill |-> r]

RECURSIVE listPids(_)
\* The PIDs under /proc, in ascending order, from p on.
listPids(p) ==
    IF p \notin PIDs THEN <<>>
    ELSE IF procs[p].alive THEN <<p>> \o listPids(p + 1) ELSE listPids(p + 1)

RECURSIVE fetchLoop(_, _, _, _, _)
fetchLoop(pids, procMap, proclist, fills, fails) ==
    IF pids = <<>> THEN [pidMap |-> procMap, plist |-> proclist, fills |-> fills]
    ELSE LET it == pidIter(Head(pids), procMap, proclist, fails[Head(pids)]) IN
         fetchLoop(Tail(pids), it.procMap, it.proclist,
                   [p \in (DOMAIN fills) \cup {Head(pids)} |->
                       IF p = Head(pids) THEN it.fill ELSE fills[p]],
                   fails)

\* The OS-specific FetchPids(): pidIter over every PID listed, from an empty
\* map and an empty list.
FetchPids(fails) == fetchLoop(listPids(1), <<>>, <<>>, <<>>, fails)

RECURSIVE formatLoop(_, _, _)
\* lines 142-158: nil and the error at the first process that fails to convert
formatLoop(plist, procs0, fails) ==
    IF plist = <<>> THEN [events |-> procs0, err |-> ""]
    ELSE LET ev == getProcessEvent(Head(plist), fails[ValueOr(Head(plist).Pid, 0)]) IN
         IF ev.err THEN [events |-> <<>>, err |-> "error converting process"]
         ELSE formatLoop(Tail(plist), Append(procs0, ev.proc), fails)

NoFills == <<>>

Ret(op, pid, err, events, plist, fills) ==
    [op |-> op, pid |-> pid, err |-> err, events |-> events, plist |-> plist,
     fills |-> fills, before |-> history]

\* Stats.Get that lists the processes also when no pattern is configured.
GetCall_noOptOut(fails, fetchErr) ==
    IF fetchErr
    THEN {[history |-> history,
           ret |-> Ret("Get", 0, "error gathering PIDs", <<>>, <<>>, NoFills)]}
    ELSE
      LET f == FetchPids(fails)
          hist1 == SetMap(history, f.pidMap)
      IN { LET out == formatLoop(plist, <<>>, fails) IN
           [history |-> hist1, ret |-> Ret("Get", 0, out.err, out.events, plist, f.fills)]
           : plist \in includeTopProcesses(cfg.IncludeTop, f.plist) }

\* Stats.Get: the new history and the call's record, for every way the
\* unstable sorts of includeTopProcesses can fall.
GetCall(fails, fetchErr) ==
    IF Len(cfg.Procs) = 0
    THEN {[history |-> history, ret |-> Ret("Get", 0, "", <<>>, <<>>, NoFills)]}
    ELSE IF fetchErr
    THEN {[history |-> history,
           ret |-> Ret("Get", 0, "error gathering PIDs", <<>>, <<>>, NoFills)]}
    ELSE
      LET f == FetchPids(fails)
          hist1 == SetMap(history, f.pidMap)
      IN { LET out == formatLoop(plist, <<>>, fails) IN
           [history |-> hist1, ret |-> Ret("Get", 0, out.err, out.events, plist, f.fills)]
           : plist \in includeTopProcesses(cfg.IncludeTop, f.plist) }

\* Stats.GetOne that stores the ProcState getProcessEvent has worked on.
GetOneCall_storeReported(pid, fail) ==
    LET r == pidFill(pid, FALSE, fail)
        fills == [p \in {pid} |-> r]
    IN
    IF r.err # ""
    THEN [history |-> history, ret |-> Ret("GetOne", pid, r.err, <<>>, <<>>, fills)]
    ELSE LET ev == getProcessEvent(r.status, fail) IN
         [history |-> SetPid(history, pid, ev.process),
          ret |-> Ret("GetOne", pid, IF ev.err THEN "convert" ELSE "",
                      <<ev.proc>>, <<r.status>>, fills)]

\* Stats.GetOne without the SetPid of line 170.
GetOneCall_noStore(pid, fail) ==
    LET r == pidFill(pid, FALSE, fail)
        fills == [p \in {pid} |-> r]
    IN
    IF r.err # ""
    THEN [history |-> history, ret |-> Ret("GetOne", pid, r.err, <<>>, <<>>, fills)]
    ELSE LET ev == getProcessEvent(r.status, fail) IN
         [history |-> history,
          ret |-> Ret("GetOne", pid, IF ev.err THEN "convert" ELSE "",
                      <<ev.proc>>, <<r.status>>, fills)]

\* Stats.GetOne
GetOneCall(pid, fail) ==
    LET r == pidFill(pid, FALSE, fail)
        fills == [p \in {pid} |-> r]
    IN
    IF r.err # ""
    THEN [history |-> history, ret |-> Ret("GetOne", pid, r.err, <<>>, <<>>, fills)]
    ELSE LET ev == getProcessEvent(r.status, fail) IN
         [history |-> SetPid(history, pid, r.status),
          ret |-> Ret("GetOne", pid, IF ev.err THEN "convert" ELSE "",
                      <<ev.proc>>, <<r.status>>, fills)]

\* Stats.GetSelf that stores what pidFill returned before it looks at the error.
GetSelfCall_storeFirst(fail) ==
    LET r == pidFill(SelfPid, FALSE, fail)
        fills == [p \in {SelfPid} |-> r]
    IN
    IF r.err # ""
    THEN [history |-> SetPid(history, SelfPid, r.status),
          ret |-> Ret("GetSelf", SelfPid, r.err, <<>>, <<>>, fills)]
    ELSE [history |-> SetPid(history, SelfPid, r.status),
          ret |-> Ret("GetSelf", SelfPid, "", <<>>, <<r.status>>, fills)]

\* Stats.GetSelf
GetSelfCall(fail) ==
    LET r == pidFill(SelfPid, FALSE, fail)
        fills == [p \in {SelfPid} |-> r]
    IN
    IF r.err # ""
    THEN [history |-> history, ret |-> Ret("GetSelf", SelfPid, r.err, <<>>, <<>>, fills)]
    ELSE [history |-> SetPid(history, SelfPid, r.status),
          ret |-> Ret("GetSelf", SelfPid, "", <<>>, <<r.status>>, fills)]

\* ------------------------------------------------------------------ actions
\* includeTopProcesses and getIOStats before they return
TopNotRun == [done |-> FALSE, result |-> <<>>]
\* what getIOStats returns: the error, and the map unless it is nil
IOReturn(err, isNil, stats) == [done |-> TRUE, err |-> err, isNil |-> isNil, stats |-> stats]
IONotDone == [done |-> FALSE, err |-> FALSE, isNil |-> FALSE, stats |-> <<>>]

\* a Stats that samples nothing
IdleCfg ==
    [Procs |-> <<>>, EnableCgroups |-> FALSE, EnableNetwork |-> FALSE,
     CPUTicks |-> FALSE, CacheCmdLine |-> FALSE, skipExtended |-> FALSE,
     IgnoreRootCgroups |-> FALSE,
     IncludeTop |-> [Enabled |-> FALSE, ByCPU |-> 0, ByMemory |-> 0]]

\* The goroutines that call Get, GetOne and GetSelf on one Stats.
MaxThreads == 2
Threads == 1..MaxThreads

\* a caller that is in no call, and ProcsTrack with its mutex free
IdleCaller == [op |-> "none", pc |-> "idle", pids |-> <<>>]
TrkIdle == [callers |-> [t \in Threads |-> IdleCaller], readers |-> {}, writer |-> 0]

\* io.pressure on the host: not there, well-formed, malformed, or there but
\* not to be read
PressureFiles == {"missing", "ok", "bad", "unreadable"}
IOHostIdle == [pressure |-> "missing", lookupErr |-> {}]

\* an IOSubsystem as allocated, Get not called
IOSubIdle ==
    [pc |-> "idle", Stats |-> <<>>, statsNil |-> TRUE, Pressure |-> "unset", err |-> "",
     statCalled |-> FALSE, parsed |-> FALSE]

\* GetPIDState not called
GpsNoRet == [state |-> "", err |-> "", missing |-> FALSE]
GpsIdle == [goos |-> "linux", state |-> [p \in PIDs |-> "none"], pid |-> 0, pc |-> "idle",
            ret |-> GpsNoRet]

\* MapProcNetCountersWithFilter not called, on counters that are all empty
NoCounters ==
    [Netstat |-> [IPExt |-> <<>>, TCPExt |-> <<>>],
     SNMP |-> [IP |-> <<>>, TCP |-> <<>>, ICMP |-> <<>>, ICMPMsg |-> <<>>,
               UDP |-> <<>>, UDPLite |-> <<>>]]
NetIdle == [raw |-> NoCounters, filter |-> <<>>, out |-> <<>>, done |-> FALSE]

\* ReportSensors not called, on a device without sensors
HwNoRet == [done |-> FALSE, isNil |-> FALSE, metrics |-> <<>>, err |-> ""]
HwIdle == [Sensors |-> <<>>, files |-> <<>>, ret |-> HwNoRet]

\* no GetOne is running, and the history has no entry for the PID (time 0)
NoSample == [pc |-> "idle", last |-> 0, SampleTime |-> 0]
RaceIdle == [callers |-> [t \in Threads |-> NoSample], clock |-> 0, entry |-> 0, newest |-> 0]

\* No call has returned since the environment last moved.
IdleRet ==
    [op |-> "idle", pid |-> 0, err |-> "", events |-> <<>>, plist |-> <<>>,
     fills |-> NoFills, before |-> <<>>]

InitProc ==
    /\ cfg \in Configs
    /\ procs = [p \in PIDs |-> [alive |-> TRUE, name |-> "a", start |-> 0, ticks |-> 1,
                                rss |-> p]]
    /\ epoch = 0
    /\ history = <<>>
    /\ ret = IdleRet
    /\ topCfg = [Enabled |-> FALSE, ByCPU |-> 0, ByMemory |-> 0]
    /\ topIn = <<>>
    /\ topOut = TopNotRun
    /\ ioFile = <<>>
    /\ ioResolve = FALSE
    /\ ioFound = {}
    /\ ioPos = 0
    /\ ioStats = <<>>
    /\ ioRet = IONotDone
    /\ trk = TrkIdle
    /\ gps = GpsIdle
    /\ ioHost = IOHostIdle
    /\ ioSub = IOSubIdle
    /\ netc = NetIdle
    /\ hw = HwIdle
    /\ race = RaceIdle

Get ==
    /\ \E fails \in [PIDs -> Fails], fetchErr \in BOOLEAN :
         \E r \in GetCall(fails, fetchErr) :
            /\ history' = r.history
            /\ ret' = r.ret
    /\ UNCHANGED <<cfg, procs, epoch, topVars, ioVars, auxVars>>

GetOne ==
    /\ \E pid \in PIDs, fail \in Fails :
         LET r == GetOneCall(pid, fail) IN
            /\ history' = r.history
            /\ ret' = r.ret
    /\ UNCHANGED <<cfg, procs, epoch, topVars, ioVars, auxVars>>

GetSelf ==
    /\ \E fail \in Fails :
         LET r == GetSelfCall(fail) IN
            /\ history' = r.history
            /\ ret' = r.ret
    /\ UNCHANGED <<cfg, procs, epoch, topVars, ioVars, auxVars>>

\* A Stats with cgroups enabled and IgnoreRootCgroups set, on a host where
\* the process doing the sampling is in the root cgroup.
RootConfigs ==
    { [Procs |-> <<PatAll>>, EnableCgroups |-> TRUE, EnableNetwork |-> FALSE,
       CPUTicks |-> TRUE, CacheCmdLine |-> FALSE, skipExtended |-> FALSE,
       IgnoreRootCgroups |-> TRUE,
       IncludeTop |-> [Enabled |-> FALSE, ByCPU |-> 0, ByMemory |-> 0]],
      [Procs |-> <<PatA>>, EnableCgroups |-> TRUE, EnableNetwork |-> TRUE,
       CPUTicks |-> FALSE, CacheCmdLine |-> FALSE, skipExtended |-> FALSE,
       IgnoreRootCgroups |-> TRUE,
       IncludeTop |-> [Enabled |-> TRUE, ByCPU |-> 1, ByMemory |-> 1]] }

InitRoot ==
    /\ cfg \in RootConfigs
    /\ procs = [p \in PIDs |-> [alive |-> TRUE, name |-> "a", start |-> 0, ticks |-> 1,
                                rss |-> p]]
    /\ epoch = 0
    /\ history = <<>>
    /\ ret = IdleRet
    /\ topCfg = [Enabled |-> FALSE, ByCPU |-> 0, ByMemory |-> 0]
    /\ topIn = <<>>
    /\ topOut = TopNotRun
    /\ ioFile = <<>>
    /\ ioResolve = FALSE
    /\ ioFound = {}
    /\ ioPos = 0
    /\ ioStats = <<>>
    /\ ioRet = IONotDone
    /\ trk = TrkIdle
    /\ gps = GpsIdle
    /\ ioHost = IOHostIdle
    /\ ioSub = IOSubIdle
    /\ netc = NetIdle
    /\ hw = HwIdle
    /\ race = RaceIdle

\* The operating system, between two calls of the engine.
Exit ==
    \E p \in PIDs \ {SelfPid} :
        /\ procs[p].alive
        /\ procs' = [procs EXCEPT ![p] = NoProc]
        /\ ret' = IdleRet
        /\ UNCHANGED <<cfg, epoch, history, topVars, ioVars, auxVars>>

\* A new process; the OS may hand it the PID of one that exited.
Spawn ==
    \E p \in PIDs \ {SelfPid}, n \in Names :
        /\ ~procs[p].alive
        /\ epoch < MaxStart
        /\ epoch' = epoch + 1
        /\ procs' = [procs EXCEPT ![p] = [alive |-> TRUE, name |-> n, start |-> epoch + 1,
                                          ticks |-> 1, rss |-> p]]
        /\ ret' = IdleRet
        /\ UNCHANGED <<cfg, history, topVars, ioVars, auxVars>>

\* exec(): the process keeps its PID and start time and changes its name.
Exec ==
    \E p \in PIDs \ {SelfPid}, n \in Names :
        /\ procs[p].alive
        /\ procs[p].name # n
        /\ procs' = [procs EXCEPT ![p].name = n]
        /\ ret' = IdleRet
        /\ UNCHANGED <<cfg, epoch, history, topVars, ioVars, auxVars>>

\* ------------------------------------------- includeTopProcesses on its own
MaxProcs == 3
MaxBy == 2

\* A ProcState of the list: its PID, CPU percentage (unset on a first sample)
\* and RSS bytes.
TopProc(pid, pct, rss) == [ZeroState EXCEPT !.Pid = Some(pid), !.Pct = pct, !.Rss = Some(rss)]

\* The lists FetchPids can hand over: no PID twice.
\* CPU percentage and RSS of a process of the list: the values of the example
\* (A leads by CPU, B by memory, C is second by memory) and others that tie
\* with them.
TopValues ==
    {<<Some(2), 1>>, <<Some(1), 3>>, <<None, 2>>, <<Some(1), 2>>, <<Some(2), 3>>, <<None, 1>>}

TopInputs ==
    UNION { { [i \in 1..n |-> TopProc(i, f[i][1], f[i][2])] : f \in [1..n -> TopValues] } :
            n \in 0..MaxProcs }

TopConfigs ==
    [Enabled : BOOLEAN, ByCPU : 0..MaxBy, ByMemory : 0..MaxBy]

InitTop ==
    /\ topCfg \in TopConfigs
    /\ topIn \in TopInputs
    /\ topOut = TopNotRun
    /\ cfg = IdleCfg
    /\ procs = [p \in PIDs |-> NoProc]
    /\ epoch = 0
    /\ history = <<>>
    /\ ret = IdleRet
    /\ ioFile = <<>>
    /\ ioResolve = FALSE
    /\ ioFound = {}
    /\ ioPos = 0
    /\ ioStats = <<>>
    /\ ioRet = IONotDone
    /\ trk = TrkIdle
    /\ gps = GpsIdle
    /\ ioHost = IOHostIdle
    /\ ioSub = IOSubIdle
    /\ netc = NetIdle
    /\ hw = HwIdle
    /\ race = RaceIdle

SelectTop ==
    /\ ~topOut.done
    /\ \E r \in includeTopProcesses(topCfg, topIn) :
          topOut' = [done |-> TRUE, result |-> r]
    /\ UNCHANGED <<topCfg, topIn, procVars, ioVars, auxVars>>

\* ------------------------------------------------------------ cgv2/io.go
\* Strings are sequences of one-character strings.
Contains(str, ch) == \E i \in 1..Len(str) : str[i] = ch

RECURSIVE SplitFrom(_, _, _)
\* strings.Split with a one-character separator: cur is the part being read
SplitFrom(str, sep, cur) ==
    IF str = <<>> THEN <<cur>>
    ELSE IF Head(str) = sep THEN <<cur>> \o SplitFrom(Tail(str), sep, <<>>)
    ELSE SplitFrom(Tail(str), sep, Append(cur, Head(str)))

Split(str, sep) == SplitFrom(str, sep, <<>>)

DigitChars == <<"0", "1", "2", "3", "4", "5", "6", "7", "8", "9">>
IsDigit(ch) == \E i \in 1..10 : DigitChars[i] = ch
DigitVal(ch) == (CHOOSE i \in 1..10 : DigitChars[i] = ch) - 1

RECURSIVE LeadingDigits(_)
\* how many digits the string starts with
LeadingDigits(str) ==
    IF str = <<>> \/ ~IsDigit(Head(str)) THEN 0 ELSE 1 + LeadingDigits(Tail(str))

RECURSIVE DecimalValue(_, _)
DecimalValue(str, acc) ==
    IF str = <<>> THEN acc ELSE DecimalValue(Tail(str), 10 * acc + DigitVal(Head(str)))

\* strconv.ParseUint(str, 10, 64): every character a digit, and at least one
ParseUint(str) ==
    IF str # <<>> /\ LeadingDigits(str) = Len(str)
    THEN [ok |-> TRUE, v |-> DecimalValue(str, 0)]
    ELSE [ok |-> FALSE, v |-> 0]

\* fmt.Sscanf(str, "%d:%d", &major, &minor): digits, a colon, digits; what
\* follows the second number is not read.
SscanfDevID(str) ==
    LET n1 == LeadingDigits(str)
        rest == SubSeq(str, n1 + 2, Len(str))
        n2 == LeadingDigits(rest)
    IN IF n1 > 0 /\ Len(str) > n1 /\ str[n1 + 1] = ":" /\ n2 > 0
       THEN [ok |-> TRUE, major |-> DecimalValue(SubSeq(str, 1, n1), 0),
             minor |-> DecimalValue(SubSeq(rest, 1, n2), 0)]
       ELSE [ok |-> FALSE, major |-> 0, minor |-> 0]

MkIOStat(rb, ri, wb, wi, db, di) ==
    [Read |-> [Bytes |-> rb, IOs |-> ri], Write |-> [Bytes |-> wb, IOs |-> wi],
     Discarded |-> [Bytes |-> db, IOs |-> di]]

\* The name of a block device that resolves.
DevName(major, minor) == <<"dev", major, minor>>

\* found, devName and error of fetchDeviceName: lookup.found are the devices
\* that resolve on the host, lookup.errs those whose lookup fails
fetchDeviceName(major, minor, lookup) ==
    IF <<major, minor>> \in lookup.errs THEN [found |-> FALSE, devName |-> <<>>, err |-> TRUE]
    ELSE IF <<major, minor>> \in lookup.found
    THEN [found |-> TRUE, devName |-> DevName(major, minor), err |-> FALSE]
    ELSE [found |-> FALSE, devName |-> <<>>, err |-> FALSE]

\* lines 151-164: the counter goes to the field its name selects
setCounter(stats, name, counter) ==
    CASE name = <<"r", "b", "y", "t", "e", "s">> -> [stats EXCEPT !.Read.Bytes = counter]
      [] name = <<"w", "b", "y", "t", "e", "s">> -> [stats EXCEPT !.Write.Bytes = counter]
      [] name = <<"r", "i", "o", "s">> -> [stats EXCEPT !.Read.IOs = counter]
      [] name = <<"w", "i", "o", "s">> -> [stats EXCEPT !.Write.IOs = counter]
      [] name = <<"d", "b", "y", "t", "e", "s">> -> [stats EXCEPT !.Discarded.Bytes = counter]
      [] name = <<"d", "i", "o", "s">> -> [stats EXCEPT !.Discarded.IOs = counter]
      [] OTHER -> stats

StatLine(devIds, stats, foundMetrics, err) ==
    [devices |-> devIds, metrics |-> stats, foundMetrics |-> foundMetrics, err |-> err]

\* deviceKey that takes the name whenever resolution is asked for.
deviceKey_alwaysName(component, id, resolveDevIDs, lookup) ==
    IF resolveDevIDs THEN fetchDeviceName(id.major, id.minor, lookup).devName ELSE component

\* lines 127-139: the device name where resolveDevIDs is set and the lookup
\* found one (its error is dropped), the component as written otherwise
deviceKey(component, id, resolveDevIDs, lookup) ==
    LET dev == IF resolveDevIDs THEN fetchDeviceName(id.major, id.minor, lookup)
               ELSE [found |-> FALSE, devName |-> <<>>, err |-> FALSE]
    IN IF dev.found THEN dev.devName ELSE component

RECURSIVE parseComponents(_, _, _, _, _, _)
\* lines 119-168: the loop over the components of the line
parseComponents(comps, resolveDevIDs, lookup, devIds, stats, foundMetrics) ==
    IF comps = <<>> THEN StatLine(devIds, stats, foundMetrics, FALSE)
    ELSE
      LET component == Head(comps) IN
      IF Contains(component, ":")
      THEN
        LET id == SscanfDevID(component)
        IN IF ~id.ok THEN StatLine(<<>>, MkIOStat(0, 0, 0, 0, 0, 0), FALSE, TRUE)
           ELSE parseComponents(Tail(comps), resolveDevIDs, lookup,
                                Append(devIds, deviceKey(component, id, resolveDevIDs, lookup)),
                                stats, foundMetrics)
      ELSE IF Contains(component, "=")
      THEN
        LET counterSplit == Split(component, "=")
            counter == ParseUint(counterSplit[2])
        IN IF Len(counterSplit) < 2
           THEN parseComponents(Tail(comps), resolveDevIDs, lookup, devIds, stats, TRUE)
           ELSE IF ~counter.ok
           THEN StatLine(<<>>, MkIOStat(0, 0, 0, 0, 0, 0), FALSE, TRUE)
           ELSE parseComponents(Tail(comps), resolveDevIDs, lookup, devIds,
                                setCounter(stats, counterSplit[1], counter.v), TRUE)
      ELSE parseComponents(Tail(comps), resolveDevIDs, lookup, devIds, stats, foundMetrics)

parseStatLine(line, resolveDevIDs, lookup) ==
    parseComponents(Split(line, " "), resolveDevIDs, lookup, <<>>,
                    MkIOStat(0, 0, 0, 0, 0, 0), FALSE)

RECURSIVE putAll(_, _, _)
\* lines 100-102: stats[dev] = metrics for every device of the line
putAll(stats, devices, metrics) ==
    IF devices = <<>> THEN stats
    ELSE putAll([k \in (DOMAIN stats) \cup {Head(devices)} |->
                    IF k = Head(devices) THEN metrics ELSE stats[k]],
                Tail(devices), metrics)

\* scanLine that stores a line without counters like any other.
scanLine_noSkip(stats, line, resolveDevIDs, lookup) ==
    LET r == parseStatLine(line, resolveDevIDs, lookup) IN
    IF r.err THEN [stats |-> stats, err |-> TRUE]
    ELSE [stats |-> putAll(stats, r.devices, r.metrics), err |-> FALSE]

\* scanLine that stores the counters under the first device of the line only.
scanLine_firstDevice(stats, line, resolveDevIDs, lookup) ==
    LET r == parseStatLine(line, resolveDevIDs, lookup) IN
    IF r.err THEN [stats |-> stats, err |-> TRUE]
    ELSE IF ~r.foundMetrics \/ r.devices = <<>> THEN [stats |-> stats, err |-> FALSE]
    ELSE [stats |-> putAll(stats, <<Head(r.devices)>>, r.metrics), err |-> FALSE]

\* lines 92-103: one turn of the scanner loop of getIOStats
scanLine(stats, line, resolveDevIDs, lookup) ==
    LET r == parseStatLine(line, resolveDevIDs, lookup) IN
    IF r.err THEN [stats |-> stats, err |-> TRUE]
    ELSE IF ~r.foundMetrics THEN [stats |-> stats, err |-> FALSE]
    ELSE [stats |-> putAll(stats, r.devices, r.metrics), err |-> FALSE]

\* The lines an io.stat file of the model is made of, each with what it says:
\* its device IDs, whether it has counters, and its counters.
StatLines ==
    <<
      \* "7:7 7:6 7:5 rbytes=52 wbytes=0 rios=78 wios=0 dbytes=0 dios=0": loop devices the kernel put on one line
      [text |->
          <<"7", ":", "7", " ", "7", ":", "6", " ", "7", ":", "5", " ", "r", "b", "y",
            "t", "e", "s", "=", "5", "2", " ", "w", "b", "y", "t", "e", "s", "=", "0",
            " ", "r", "i", "o", "s", "=", "7", "8", " ", "w", "i", "o", "s", "=", "0",
            " ", "d", "b", "y", "t", "e", "s", "=", "0", " ", "d", "i", "o", "s", "=",
            "0">>,
       devs |-> <<[tok |-> <<"7", ":", "7">>, major |-> 7, minor |-> 7], [tok |-> <<"7", ":", "6">>, major |-> 7, minor |-> 6], [tok |-> <<"7", ":", "5">>, major |-> 7, minor |-> 5]>>,
       metrics |-> TRUE, bad |-> FALSE,
       stat |-> MkIOStat(52, 78, 0, 0, 0, 0)],
      \* "7:3 rbytes=21 wbytes=4 rios=6 wios=1 dbytes=3 dios=2": one device, every counter
      [text |->
          <<"7", ":", "3", " ", "r", "b", "y", "t", "e", "s", "=", "2", "1", " ", "w",
            "b", "y", "t", "e", "s", "=", "4", " ", "r", "i", "o", "s", "=", "6", " ",
            "w", "i", "o", "s", "=", "1", " ", "d", "b", "y", "t", "e", "s", "=", "3",
            " ", "d", "i", "o", "s", "=", "2">>,
       devs |-> <<[tok |-> <<"7", ":", "3">>, major |-> 7, minor |-> 3]>>,
       metrics |-> TRUE, bad |-> FALSE,
       stat |-> MkIOStat(21, 6, 4, 1, 3, 2)],
      \* "7:7 7:6 7:5": device IDs and no counter
      [text |->
          <<"7", ":", "7", " ", "7", ":", "6", " ", "7", ":", "5">>,
       devs |-> <<[tok |-> <<"7", ":", "7">>, major |-> 7, minor |-> 7], [tok |-> <<"7", ":", "6">>, major |-> 7, minor |-> 6], [tok |-> <<"7", ":", "5">>, major |-> 7, minor |-> 5]>>,
       metrics |-> FALSE, bad |-> FALSE,
       stat |-> MkIOStat(0, 0, 0, 0, 0, 0)],
      \* "8:0  wios=9 xbytes=4 rbytes=1 rbytes=3": a double space, an unknown counter, a counter given twice
      [text |->
          <<"8", ":", "0", " ", " ", "w", "i", "o", "s", "=", "9", " ", "x", "b", "y",
            "t", "e", "s", "=", "4", " ", "r", "b", "y", "t", "e", "s", "=", "1", " ",
            "r", "b", "y", "t", "e", "s", "=", "3">>,
       devs |-> <<[tok |-> <<"8", ":", "0">>, major |-> 8, minor |-> 0]>>,
       metrics |-> TRUE, bad |-> FALSE,
       stat |-> MkIOStat(3, 0, 0, 9, 0, 0)],
      \* "7:3 rbytes=5": a device of another line, listed again
      [text |->
          <<"7", ":", "3", " ", "r", "b", "y", "t", "e", "s", "=", "5">>,
       devs |-> <<[tok |-> <<"7", ":", "3">>, major |-> 7, minor |-> 3]>>,
       metrics |-> TRUE, bad |-> FALSE,
       stat |-> MkIOStat(5, 0, 0, 0, 0, 0)],
      \* "8:0 rbytes=1x": a counter that is no number
      [text |->
          <<"8", ":", "0", " ", "r", "b", "y", "t", "e", "s", "=", "1", "x">>,
       devs |-> <<[tok |-> <<"8", ":", "0">>, major |-> 8, minor |-> 0]>>,
       metrics |-> TRUE, bad |-> TRUE,
       stat |-> MkIOStat(0, 0, 0, 0, 0, 0)],
      \* "8:x rbytes=1": a device token that is no major:minor pair
      [text |->
          <<"8", ":", "x", " ", "r", "b", "y", "t", "e", "s", "=", "1">>,
       devs |-> <<>>,
       metrics |-> TRUE, bad |-> TRUE,
       stat |-> MkIOStat(0, 0, 0, 0, 0, 0)],
      \* "8:0x rbytes=1": a device token with text after the minor number
      [text |->
          <<"8", ":", "0", "x", " ", "r", "b", "y", "t", "e", "s", "=", "1">>,
       devs |-> <<[tok |-> <<"8", ":", "0", "x">>, major |-> 8, minor |-> 0]>>,
       metrics |-> TRUE, bad |-> TRUE,
       stat |-> MkIOStat(1, 0, 0, 0, 0, 0)]
    >>

MaxLines == 2

\* io.stat files: sequences of line numbers of StatLines
StatFiles == UNION {[1..n -> 1..Len(StatLines)] : n \in 0..MaxLines}

\* The devices of the model that fetchDeviceName can be asked about.
StatDevices == {<<7, 7>>, <<7, 6>>, <<7, 5>>, <<7, 3>>, <<8, 0>>}

\* what fetchDeviceName finds on the host
DevLookup == [found |-> ioFound, errs |-> ioHost.lookupErr]


InitIO ==
    /\ ioFile \in StatFiles
    /\ ioResolve \in BOOLEAN
    /\ ioFound \in {{}, {<<7, 7>>, <<7, 3>>}, StatDevices}
    /\ (~ioResolve => ioFound = {})
    /\ ioHost \in [pressure : PressureFiles, lookupErr : {{}, {<<7, 6>>, <<8, 0>>}}]
    /\ (~ioResolve => ioHost.lookupErr = {})
    /\ ioHost.lookupErr \cap ioFound = {}
    /\ ioSub = [IOSubIdle EXCEPT !.pc = "called"]
    /\ ioPos = 0
    /\ ioStats = <<>>
    /\ ioRet = IONotDone
    /\ cfg = IdleCfg
    /\ procs = [p \in PIDs |-> NoProc]
    /\ epoch = 0
    /\ history = <<>>
    /\ ret = IdleRet
    /\ topCfg = [Enabled |-> FALSE, ByCPU |-> 0, ByMemory |-> 0]
    /\ topIn = <<>>
    /\ topOut = TopNotRun
    /\ trk = TrkIdle
    /\ gps = GpsIdle
    /\ netc = NetIdle
    /\ hw = HwIdle
    /\ race = RaceIdle

\* lines 85-88: io.stat cannot be opened
OpenError ==
    /\ ~ioRet.done
    /\ ioPos = 0
    /\ ioRet' = IOReturn(TRUE, FALSE, <<>>)
    /\ UNCHANGED <<ioFile, ioResolve, ioFound, ioPos, ioStats, ioHost, ioSub, procVars, topVars, auxVars>>

\* lines 92-103: the scanner reads the next line
ScanLine ==
    /\ ~ioRet.done
    /\ ioPos < Len(ioFile)
    /\ LET r == scanLine(ioStats, StatLines[ioFile[ioPos + 1]].text, ioResolve, DevLookup) IN
         IF r.err
         THEN /\ ioRet' = IOReturn(TRUE, TRUE, <<>>)
              /\ UNCHANGED <<ioPos, ioStats>>
         ELSE /\ ioStats' = r.stats
              /\ ioPos' = ioPos + 1
              /\ UNCHANGED ioRet
    /\ UNCHANGED <<ioFile, ioResolve, ioFound, ioHost, ioSub, procVars, topVars, auxVars>>

\* line 105: the end of the file
ReturnStats ==
    /\ ~ioRet.done
    /\ ioPos = Len(ioFile)
    /\ ioRet' = IOReturn(FALSE, FALSE, ioStats)
    /\ UNCHANGED <<ioFile, ioResolve, ioFound, ioPos, ioStats, ioHost, ioSub, procVars, topVars, auxVars>>

\* IOSubsystem.Get that parses io.pressure without asking whether it exists.
IOSubsystemGet_noStat(sub, r, pressure) ==
    LET s1 == [sub EXCEPT !.pc = "done", !.Stats = r.stats, !.statsNil = r.isNil] IN
    IF r.err THEN [s1 EXCEPT !.err = "error getting io.stats"]
    ELSE [s1 EXCEPT !.parsed = TRUE,
                    !.Pressure = IF pressure = "ok" THEN "set" ELSE "unset",
                    !.err = IF pressure = "ok" THEN "" ELSE "error fetching io.pressure"]

\* lines 59-79, IOSubsystem.Get once getIOStats has returned r
IOSubsystemGet(sub, r, pressure) ==
    LET s1 == [sub EXCEPT !.pc = "done", !.Stats = r.stats, !.statsNil = r.isNil] IN
    IF r.err THEN [s1 EXCEPT !.err = "error getting io.stats"]
    ELSE IF pressure = "missing" THEN [s1 EXCEPT !.statCalled = TRUE]
    ELSE [s1 EXCEPT !.statCalled = TRUE, !.parsed = TRUE,
                    !.Pressure = IF pressure = "ok" THEN "set" ELSE "unset",
                    !.err = IF pressure = "ok" THEN "" ELSE "error fetching io.pressure"]

\* lines 61-78: getIOStats has returned to IOSubsystem.Get
GetReturn ==
    /\ ioRet.done
    /\ ioSub.pc = "called"
    /\ ioSub' = IOSubsystemGet(ioSub, ioRet, ioHost.pressure)
    /\ UNCHANGED <<ioFile, ioResolve, ioFound, ioPos, ioStats, ioRet, ioHost, procVars, topVars,
                   auxVars>>

NextIO == OpenError \/ ScanLine \/ ReturnStats \/ GetReturn

\* ------------------------------------- ProcsTrack under concurrent callers
\* sync.RWMutex of ProcsTrack: RLock waits for the writer, Lock for everyone.
CanRLock == trk.writer = 0
CanLock == trk.writer = 0 /\ trk.readers = {}

\* The callers' program counters while they are inside the history map.
ReadPcs == {"cacheCmdLine.read", "GetPid.read"}
WritePc == "store.write"

\* The PIDs FetchPids walks through.
PidList == <<1, 2>>

\* Stats.GetOne writing the map itself, as before ProcsTrack wrapped it.
storeAccess_direct(op) == IF op = "GetOne" THEN "direct" ELSE "locked"

\* lines 120, 170, 184: the history is stored through ProcsMap.SetMap and
\* ProcsMap.SetPid, which take the mutex
storeAccess(op) == "locked"

\* pidFill has returned for the first of c.pids: Get goes on to the next PID
\* and to SetMap after the last; GetOne and GetSelf store unless it failed.
AfterFill(c, ok) ==
    IF c.op = "Get"
    THEN IF Len(c.pids) > 1 THEN [c EXCEPT !.pids = Tail(c.pids), !.pc = "pidFill"]
         ELSE [c EXCEPT !.pids = <<>>, !.pc = "store"]
    ELSE IF ok THEN [c EXCEPT !.pc = "store"] ELSE [c EXCEPT !.pc = "return"]

SetCaller(t, c) == trk' = [trk EXCEPT !.callers[t] = c]

\* A goroutine enters Get (lines 107-118), GetOne (164) or GetSelf (176).
Call(t) ==
    /\ trk.callers[t].pc = "idle"
    /\ \/ \E out \in {"no patterns", "FetchPids error", "ok"} :
            SetCaller(t, IF out = "ok" THEN [op |-> "Get", pc |-> "pidFill", pids |-> PidList]
                         ELSE [op |-> "Get", pc |-> "return", pids |-> <<>>])
       \/ \E pid \in PIDs : SetCaller(t, [op |-> "GetOne", pc |-> "pidFill", pids |-> <<pid>>])
       \/ SetCaller(t, [op |-> "GetSelf", pc |-> "pidFill", pids |-> <<SelfPid>>])
    /\ UNCHANGED <<procVars, topVars, ioVars, gps, netc, hw, race>>

\* pidFill, lines 214-221: GetInfoForPid, skipExtended, then cacheCmdLine
PidFillStart(t) ==
    LET c == trk.callers[t] IN
    /\ c.pc = "pidFill"
    /\ \E out \in {"GetInfoForPid error", "skipExtended", "ok"} :
          SetCaller(t, IF out = "ok" THEN [c EXCEPT !.pc = "cacheCmdLine"]
                       ELSE AfterFill(c, out = "skipExtended"))
    /\ UNCHANGED <<procVars, topVars, ioVars, gps, netc, hw, race>>

\* ProcsMap.GetPid, called by cacheCmdLine (line 283) and by pidFill (line
\* 240): the read lock is taken
GetPidRLock(t) ==
    LET c == trk.callers[t] IN
    /\ c.pc \in {"cacheCmdLine", "GetPid"}
    /\ CanRLock
    /\ trk' = [trk EXCEPT !.readers = @ \cup {t},
                          !.callers[t] = [c EXCEPT !.pc = IF c.pc = "GetPid" THEN "GetPid.read"
                                                          ELSE "cacheCmdLine.read"]]
    /\ UNCHANGED <<procVars, topVars, ioVars, gps, netc, hw, race>>

\* ProcsMap.GetPid returns: the read lock is released
GetPidRUnlock(t) ==
    LET c == trk.callers[t] IN
    /\ c.pc \in ReadPcs
    /\ trk' = [trk EXCEPT !.readers = @ \ {t},
                          !.callers[t] = [c EXCEPT !.pc = IF c.pc = "GetPid.read" THEN "post"
                                                          ELSE "filter"]]
    /\ UNCHANGED <<procVars, topVars, ioVars, gps, netc, hw, race>>

\* pidFill, lines 224-237: the filter (Get only) and FillPidMetrics
FilterAndFill(t) ==
    LET c == trk.callers[t] IN
    /\ c.pc = "filter"
    /\ \E out \in {"filtered", "FillPidMetrics error", "ok"} :
          /\ out = "filtered" => c.op = "Get"
          /\ SetCaller(t, IF out = "ok" THEN [c EXCEPT !.pc = "GetPid"]
                          ELSE AfterFill(c, FALSE))
    /\ UNCHANGED <<procVars, topVars, ioVars, gps, netc, hw, race>>

\* pidFill, lines 241-277: cgroups, network and CPU, without the map
PostProcess(t) ==
    LET c == trk.callers[t] IN
    /\ c.pc = "post"
    /\ \E ok \in BOOLEAN : SetCaller(t, AfterFill(c, ok))
    /\ UNCHANGED <<procVars, topVars, ioVars, gps, netc, hw, race>>

\* SetMap (line 120) or SetPid (lines 170, 184) begins to write the map
StoreBegin(t) ==
    LET c == trk.callers[t] IN
    /\ c.pc = "store"
    /\ IF storeAccess(c.op) = "locked"
       THEN /\ CanLock
            /\ trk' = [trk EXCEPT !.writer = t, !.callers[t] = [c EXCEPT !.pc = WritePc]]
       ELSE SetCaller(t, [c EXCEPT !.pc = WritePc])
    /\ UNCHANGED <<procVars, topVars, ioVars, gps, netc, hw, race>>

\* the write is done: the mutex is released
StoreEnd(t) ==
    LET c == trk.callers[t] IN
    /\ c.pc = WritePc
    /\ trk' = [trk EXCEPT !.writer = IF @ = t THEN 0 ELSE @,
                          !.callers[t] = [c EXCEPT !.pc = "return"]]
    /\ UNCHANGED <<procVars, topVars, ioVars, gps, netc, hw, race>>

\* the call returns
Return(t) ==
    /\ trk.callers[t].pc = "return"
    /\ SetCaller(t, IdleCaller)
    /\ UNCHANGED <<procVars, topVars, ioVars, gps, netc, hw, race>>

InitTrk ==
    /\ trk = TrkIdle
    /\ cfg = IdleCfg
    /\ procs = [p \in PIDs |-> NoProc]
    /\ epoch = 0
    /\ history = <<>>
    /\ ret = IdleRet
    /\ topCfg = [Enabled |-> FALSE, ByCPU |-> 0, ByMemory |-> 0]
    /\ topIn = <<>>
    /\ topOut = TopNotRun
    /\ ioFile = <<>>
    /\ ioResolve = FALSE
    /\ ioFound = {}
    /\ ioPos = 0
    /\ ioStats = <<>>
    /\ ioRet = IONotDone
    /\ gps = GpsIdle
    /\ ioHost = IOHostIdle
    /\ ioSub = IOSubIdle
    /\ netc = NetIdle
    /\ hw = HwIdle
    /\ race = RaceIdle

NextTrk ==
    \E t \in Threads :
        \/ Call(t)
        \/ PidFillStart(t)
        \/ GetPidRLock(t)
        \/ GetPidRUnlock(t)
        \/ FilterAndFill(t)
        \/ PostProcess(t)
        \/ StoreBegin(t)
        \/ StoreEnd(t)
        \/ Return(t)

\* ------------------------------------------------------------ GetPIDState
ProcNotExist == "ProcNotExist"

\* What GetPIDState returns: the state or the error; missing says that the
\* step that decided the result found no process with the PID.
GpsRet(state, err, missing) == [state |-> state, err |-> err, missing |-> missing]

\* GetInfoForPid as GetPIDState uses it: no process gives an error (ESRCH
\* where the platform says so), and a process there can still fail to be read.
GpsInfoOutcomes(state) == IF state # "none" THEN {"ok", "error"} ELSE {"ESRCH"}

\* PidState of a process, "none" where the PID has no process
PidStates == {"running", "sleeping"}

\* lines 72-84: on AIX ESRCH is ProcNotExist and another error is wrapped
getPIDStateAIX(out, state) ==
    CASE out = "ESRCH" -> GpsRet("", ProcNotExist, TRUE)
      [] out = "error" -> GpsRet("", "error getting PID info", FALSE)
      [] OTHER -> GpsRet(state, "", FALSE)

\* lines 98-103: elsewhere every error of GetInfoForPid is wrapped
getPIDStateInfo(out, state) ==
    CASE out = "ESRCH" -> GpsRet("", "error getting state info", TRUE)
      [] out = "error" -> GpsRet("", "error getting state info", FALSE)
      [] OTHER -> GpsRet(state, "", FALSE)

\* line 69: GetPIDState is called
GpsCall ==
    /\ gps.pc \in {"idle", "done"}
    /\ \E pid \in PIDs :
          gps' = [gps EXCEPT !.pid = pid, !.ret = GpsNoRet,
                             !.pc = IF gps.goos = "aix" THEN "info" ELSE "exists"]
    /\ UNCHANGED <<procVars, topVars, ioVars, trk, netc, hw, race>>

\* lines 88-94: psutil.PidExistsWithContext
GpsPidExists ==
    /\ gps.pc = "exists"
    /\ \/ gps' = [gps EXCEPT !.pc = "done",
                             !.ret = GpsRet("", "Error trying to find process", FALSE)]
       \/ /\ gps.state[gps.pid] = "none"
          /\ gps' = [gps EXCEPT !.pc = "done", !.ret = GpsRet("", ProcNotExist, TRUE)]
       \/ /\ gps.state[gps.pid] # "none"
          /\ gps' = [gps EXCEPT !.pc = "info"]
    /\ UNCHANGED <<procVars, topVars, ioVars, trk, netc, hw, race>>

\* lines 73-84 on AIX, lines 97-103 elsewhere: GetInfoForPid
GpsGetInfo ==
    /\ gps.pc = "info"
    /\ \E out \in GpsInfoOutcomes(gps.state[gps.pid]) :
          gps' = [gps EXCEPT !.pc = "done",
                             !.ret = IF gps.goos = "aix"
                                     THEN getPIDStateAIX(out, gps.state[gps.pid])
                                     ELSE getPIDStateInfo(out, gps.state[gps.pid])]
    /\ UNCHANGED <<procVars, topVars, ioVars, trk, netc, hw, race>>

\* a process exits or starts while GetPIDState runs
GpsExit ==
    /\ \E p \in PIDs : gps.state[p] # "none" /\ gps' = [gps EXCEPT !.state[p] = "none"]
    /\ UNCHANGED <<procVars, topVars, ioVars, trk, netc, hw, race>>

GpsSpawn ==
    /\ \E p \in PIDs, st \in PidStates :
          gps.state[p] = "none" /\ gps' = [gps EXCEPT !.state[p] = st]
    /\ UNCHANGED <<procVars, topVars, ioVars, trk, netc, hw, race>>

InitGps ==
    /\ \E goos \in {"aix", "linux"}, state \in [PIDs -> PidStates \cup {"none"}] :
          gps = [GpsIdle EXCEPT !.goos = goos, !.state = state]
    /\ trk = TrkIdle
    /\ cfg = IdleCfg
    /\ procs = [p \in PIDs |-> NoProc]
    /\ epoch = 0
    /\ history = <<>>
    /\ ret = IdleRet
    /\ topCfg = [Enabled |-> FALSE, ByCPU |-> 0, ByMemory |-> 0]
    /\ topIn = <<>>
    /\ topOut = TopNotRun
    /\ ioFile = <<>>
    /\ ioResolve = FALSE
    /\ ioFound = {}
    /\ ioPos = 0
    /\ ioStats = <<>>
    /\ ioRet = IONotDone
    /\ ioHost = IOHostIdle
    /\ ioSub = IOSubIdle
    /\ netc = NetIdle
    /\ hw = HwIdle
    /\ race = RaceIdle

NextGps == GpsCall \/ GpsPidExists \/ GpsGetInfo \/ GpsExit \/ GpsSpawn

\* ------------------------------------------------- network/helpers.go
\* The counters are uint64; the model keeps a word of CounterBits bits.
CounterBits == 3

\* int64(in): the bits of the counter read as a signed integer
ToInt64(in) == IF in >= 2^(CounterBits - 1) THEN in - 2^CounterBits ELSE in

checkMaxConn(inKey, in) == IF inKey = "MaxConn" THEN ToInt64(in) ELSE in

setKey(compMap, key, value) ==
    [k \in (DOMAIN compMap) \cup {key} |-> IF k = key THEN value ELSE compMap[k]]

\* for k, v := range m { compMap[k] = checkMaxConn(k, v) }
RECURSIVE rangeInto(_, _, _)
rangeInto(compMap, m, todo) ==
    IF todo = {} THEN compMap
    ELSE LET k == CHOOSE x \in todo : TRUE
         IN rangeInto(setKey(compMap, k, checkMaxConn(k, m[k])), m, todo \ {k})

\* for _, key := range filter { ... }: map1 is looked up first, then map2
RECURSIVE filterInto(_, _, _, _)
filterInto(compMap, map1, map2, filter) ==
    IF filter = <<>> THEN compMap
    ELSE LET key == Head(filter)
             c1 == IF key \in DOMAIN map1
                   THEN setKey(compMap, key, checkMaxConn(key, map1[key]))
                   ELSE compMap
             c2 == IF key \in DOMAIN map2
                   THEN setKey(c1, key, checkMaxConn(key, map2[key]))
                   ELSE c1
         IN filterInto(c2, map1, map2, Tail(filter))

\* combineMap that looks map2 up first, so that map1 wins.
combineMap_map1Last(map1, map2, filter) ==
    IF Len(filter) = 0 \/ filter[1] = "all"
    THEN rangeInto(rangeInto(<<>>, map2, DOMAIN map2), map1, DOMAIN map1)
    ELSE filterInto(<<>>, map2, map1, filter)

combineMap(map1, map2, filter) ==
    IF Len(filter) = 0 \/ filter[1] = "all"
    THEN rangeInto(rangeInto(<<>>, map1, DOMAIN map1), map2, DOMAIN map2)
    ELSE filterInto(<<>>, map1, map2, filter)

\* createMap that passes the udp counters through the filter as well.
createMap_filterUDP(raw, filter) ==
    [ip |-> combineMap(raw.Netstat.IPExt, raw.SNMP.IP, filter),
     tcp |-> combineMap(raw.Netstat.TCPExt, raw.SNMP.TCP, filter),
     udp |-> combineMap(<<>>, raw.SNMP.UDP, filter),
     udp_lite |-> combineMap(<<>>, raw.SNMP.UDPLite, filter),
     icmp |-> combineMap(raw.SNMP.ICMPMsg, raw.SNMP.ICMP, filter)]

createMap(raw, filter) ==
    [ip |-> combineMap(raw.Netstat.IPExt, raw.SNMP.IP, filter),
     tcp |-> combineMap(raw.Netstat.TCPExt, raw.SNMP.TCP, filter),
     udp |-> raw.SNMP.UDP,
     udp_lite |-> raw.SNMP.UDPLite,
     icmp |-> combineMap(raw.SNMP.ICMPMsg, raw.SNMP.ICMP, filter)]

\* The counters a process can have: MaxConn is -1 in /proc/PID/net/snmp, read
\* as the largest uint64.
MaxFilter == 2
CounterKeys == {"MaxConn", "InCsumErrors"}
Counters == {1, 2^(CounterBits - 1), 2^CounterBits - 1}
CounterMaps ==
    UNION { [ks -> Counters] : ks \in SUBSET CounterKeys }
FilterKeys == CounterKeys \cup {"all", "TCPAbortOnClose"}
Filters ==
    UNION { [1..n -> FilterKeys] : n \in 0..MaxFilter }
IPMaps ==
    { <<[InCsumErrors |-> 1], <<>>>>,
      <<[InCsumErrors |-> 1], [InCsumErrors |-> 2^CounterBits - 1]>> }

\* the UDP and UDPLite counters
UDPMaps ==
    { <<[NoPorts |-> 1], <<>>>>,
      <<[InCsumErrors |-> 2^CounterBits - 1, NoPorts |-> 1], [InCsumErrors |-> 1]>> }

InitNet ==
    /\ \E t1 \in CounterMaps, t2 \in CounterMaps, ip \in IPMaps, udp \in UDPMaps,
          f \in Filters :
          netc = [raw |-> [Netstat |-> [IPExt |-> ip[1], TCPExt |-> t1],
                           SNMP |-> [IP |-> ip[2], TCP |-> t2,
                                     ICMP |-> [InCsumErrors |-> 1],
                                     ICMPMsg |-> [InType3 |-> 2^(CounterBits - 1)],
                                     UDP |-> udp[1],
                                     UDPLite |-> udp[2]]],
                  filter |-> f, out |-> <<>>, done |-> FALSE]
    /\ cfg = IdleCfg
    /\ procs = [p \in PIDs |-> NoProc]
    /\ epoch = 0
    /\ history = <<>>
    /\ ret = IdleRet
    /\ topCfg = [Enabled |-> FALSE, ByCPU |-> 0, ByMemory |-> 0]
    /\ topIn = <<>>
    /\ topOut = TopNotRun
    /\ ioFile = <<>>
    /\ ioResolve = FALSE
    /\ ioFound = {}
    /\ ioPos = 0
    /\ ioStats = <<>>
    /\ ioRet = IONotDone
    /\ ioHost = IOHostIdle
    /\ ioSub = IOSubIdle
    /\ trk = TrkIdle
    /\ gps = GpsIdle
    /\ hw = HwIdle
    /\ race = RaceIdle

MapProcNetCountersWithFilter ==
    /\ ~netc.done
    /\ netc' = [netc EXCEPT !.out = createMap(netc.raw, netc.filter), !.done = TRUE]
    /\ UNCHANGED <<procVars, topVars, ioVars, trk, gps, hw, race>>

\* ------------------------------------------------------- hwmon/hwmon.go
\* Go errors: what the error is at the bottom, and whether fmt.Errorf("%w")
\* has wrapped it.
NilErr == [kind |-> "nil", wrapped |-> FALSE]
IsErr(err) == err.kind # "nil"
WrapErr(err) == [err EXCEPT !.wrapped = TRUE]
\* os.IsNotExist looks at the error it is given and does not unwrap it
osIsNotExist(err) == err.kind = "ENOENT" /\ ~err.wrapped
\* errors.Is unwraps
errorsIs(err, target) == err.kind = target

\* a file of the hwmon directory: absent, there but not to be read, or there
\* with a text
NoFile == [state |-> "absent", text |-> <<>>]
LockedFile == [state |-> "unreadable", text |-> <<>>]
TextFile(text) == [state |-> "ok", text |-> text]

TempSensor == [fileKey |-> <<"t", "e", "m", "p">>, units |-> "celsius"]
VoltSensor == [fileKey |-> <<"i", "n">>, units |-> "millivolts"]
FanSensor == [fileKey |-> <<"f", "a", "n">>, units |-> "rpm"]

\* strings.TrimSpace of the file, with ENOENT passed through as it is
stringStrip(file) ==
    CASE file.state = "absent" -> [v |-> <<>>, err |-> [kind |-> "ENOENT", wrapped |-> FALSE]]
      [] file.state = "unreadable" -> [v |-> <<>>, err |-> [kind |-> "EACCES", wrapped |-> TRUE]]
      [] OTHER -> [v |-> file.text, err |-> NilErr]

\* int64 and uint64 on a word of IntBits bits
IntBits == 16

\* strconv.ParseInt(str, 10, 64): an optional sign, then digits only, and a
\* value that fits the signed word
ParseInt(str) ==
    LET signed == str # <<>> /\ Head(str) \in {"+", "-"}
        digits == IF signed THEN Tail(str) ELSE str
        wellFormed == digits # <<>> /\ LeadingDigits(digits) = Len(digits)
        abs == IF wellFormed THEN DecimalValue(digits, 0) ELSE 0
        v == IF signed /\ Head(str) = "-" THEN 0 - abs ELSE abs
    IN IF wellFormed /\ v >= 0 - 2^(IntBits - 1) /\ v < 2^(IntBits - 1)
       THEN [ok |-> TRUE, v |-> v]
       ELSE [ok |-> FALSE, v |-> 0]

\* uint64(conv): the bits of the signed integer read as unsigned
ToUint64(conv) == IF conv < 0 THEN conv + 2^IntBits ELSE conv

stringStripInt(file) ==
    LET raw == stringStrip(file)
        conv == ParseInt(raw.v)
    IN IF IsErr(raw.err) THEN [v |-> None, err |-> raw.err]
       ELSE IF ~conv.ok THEN [v |-> None, err |-> [kind |-> "parse", wrapped |-> TRUE]]
       ELSE [v |-> Some(ToUint64(conv.v)), err |-> NilErr]

millicelsiusToCelsius(in) == Some(ValueOr(in, 0) \div 1000)

getValueForSensor(file, st) ==
    LET intval == stringStripInt(file)
    IN IF IsErr(intval.err) THEN [v |-> None, err |-> WrapErr(intval.err)]
       ELSE [v |-> IF st = TempSensor THEN millicelsiusToCelsius(intval.v) ELSE intval.v,
             err |-> NilErr]

RECURSIVE DigitsOf(_)
\* %d of a number that is not negative
DigitsOf(n) ==
    IF n < 10 THEN <<DigitChars[n + 1]>> ELSE DigitsOf(n \div 10) \o <<DigitChars[(n % 10) + 1]>>

NoMetrics ==
    [Label |-> <<>>, sensorType |-> TempSensor, Value |-> None, Critical |-> None,
     Max |-> None, Lowest |-> None, Average |-> None]

\* Sensor.Fetch; the crit, max, lowest and average files are read with their
\* errors dropped.
Fetch(s, dir) ==
    LET label == stringStrip(dir.label)
        input == getValueForSensor(dir.input, s.DevType)
    IN IF IsErr(label.err) /\ ~osIsNotExist(label.err)
       THEN [data |-> NoMetrics, err |-> WrapErr(label.err)]
       ELSE IF osIsNotExist(input.err)
       THEN [data |-> NoMetrics, err |-> [kind |-> "ErrNoMetric", wrapped |-> FALSE]]
       ELSE IF IsErr(input.err)
       THEN [data |-> NoMetrics, err |-> WrapErr(input.err)]
       ELSE [data |-> [Label |-> IF osIsNotExist(label.err)
                                 THEN s.DevType.fileKey \o <<"_">> \o DigitsOf(s.SensorNum)
                                 ELSE label.v,
                       sensorType |-> s.DevType, Value |-> input.v,
                       Critical |-> getValueForSensor(dir.crit, s.DevType).v,
                       Max |-> getValueForSensor(dir.max, s.DevType).v,
                       Lowest |-> getValueForSensor(dir.lowest, s.DevType).v,
                       Average |-> getValueForSensor(dir.average, s.DevType).v],
             err |-> NilErr]

\* strings.ToLower, on the letters the labels are written with
UpperChars == <<"A", "B", "C">>
LowerChars == <<"a", "b", "c">>
ToLowerChar(ch) ==
    IF \E i \in 1..Len(UpperChars) : UpperChars[i] = ch
    THEN LowerChars[CHOOSE i \in 1..Len(UpperChars) : UpperChars[i] = ch]
    ELSE ch

\* strings.ToLower(strings.Replace(label, " ", "_", -1))
labelName(label) ==
    [i \in 1..Len(label) |-> ToLowerChar(IF label[i] = " " THEN "_" ELSE label[i])]

HwReturn(isNil, metrics, err) == [done |-> TRUE, isNil |-> isNil, metrics |-> metrics, err |-> err]

RECURSIVE sensorLoop(_, _, _, _)
\* for _, sensor := range dev.Sensors, from sensor i on
sensorLoop(metrics, sensors, files, i) ==
    IF i > Len(sensors) THEN HwReturn(FALSE, metrics, "")
    ELSE LET got == Fetch(sensors[i], files[i])
         IN IF errorsIs(got.err, "ErrNoMetric")
            THEN sensorLoop(metrics, sensors, files, i + 1)
            ELSE IF IsErr(got.err)
            THEN HwReturn(TRUE, <<>>, "error fetching sensor data")
            ELSE sensorLoop(setKey(metrics, labelName(got.data.Label), got.data),
                            sensors, files, i + 1)

\* The devices of the model: up to MaxSensors sensors, numbered as
\* findSensorsInPath finds them, each with its label and input file.
MaxSensors == 2
SensorTypes == {TempSensor, VoltSensor, FanSensor}
LabelFiles == {NoFile, LockedFile, TextFile(<<"C", " ", "1">>), TextFile(<<"c", "_", "1">>)}
\* 2 degrees, 5 degrees of frost, and a text that is no number
InputFiles ==
    {NoFile, TextFile(<<"2", "0", "0", "0">>), TextFile(<<"-", "5", "0", "0", "0">>),
     TextFile(<<"x">>)}
\* the crit, max, lowest and average files the sensors of a device come with
ExtraFiles ==
    { [crit |-> NoFile, max |-> NoFile, lowest |-> NoFile, average |-> NoFile],
      [crit |-> TextFile(<<"9", "0", "0", "0">>), max |-> LockedFile,
       lowest |-> TextFile(<<"-", "1", "0", "0", "0">>), average |-> TextFile(<<"x">>)] }

InitHw ==
    /\ \E n \in 0..MaxSensors :
          \E types \in [1..n -> SensorTypes], labels \in [1..n -> LabelFiles],
             inputs \in [1..n -> InputFiles], extra \in ExtraFiles :
              hw = [Sensors |-> [i \in 1..n |-> [DevType |-> types[i], SensorNum |-> i]],
                    files |-> [i \in 1..n |->
                                  [label |-> labels[i], input |-> inputs[i],
                                   crit |-> extra.crit, max |-> extra.max,
                                   lowest |-> extra.lowest, average |-> extra.average]],
                    ret |-> HwNoRet]
    /\ cfg = IdleCfg
    /\ procs = [p \in PIDs |-> NoProc]
    /\ epoch = 0
    /\ history = <<>>
    /\ ret = IdleRet
    /\ topCfg = [Enabled |-> FALSE, ByCPU |-> 0, ByMemory |-> 0]
    /\ topIn = <<>>
    /\ topOut = TopNotRun
    /\ ioFile = <<>>
    /\ ioResolve = FALSE
    /\ ioFound = {}
    /\ ioPos = 0
    /\ ioStats = <<>>
    /\ ioRet = IONotDone
    /\ ioHost = IOHostIdle
    /\ ioSub = IOSubIdle
    /\ trk = TrkIdle
    /\ gps = GpsIdle
    /\ netc = NetIdle
    /\ race = RaceIdle

ReportSensors ==
    /\ ~hw.ret.done
    /\ hw' = [hw EXCEPT !.ret = sensorLoop(<<>>, hw.Sensors, hw.files, 1)]
    /\ UNCHANGED <<procVars, topVars, ioVars, trk, gps, netc, race>>

\* ------------------------------------- concurrent GetOne calls on one PID
\* Goroutines call GetOne(pid) on one Stats for the same pid. The map is read
\* and written under the mutex of ProcsTrack, so each GetPid and each SetPid
\* is one step; the steps of different callers interleave freely. A history
\* entry is known by its SampleTime.
MaxSamples == 3

SetSampler(t, c) == race' = [race EXCEPT !.callers[t] = c]

\* GetOne, line 165: pidFill begins; lines 214-237 may fail
GetOneBegin(t) ==
    /\ race.callers[t].pc = "idle"
    /\ \E ok \in BOOLEAN :
          SetSampler(t, IF ok THEN [NoSample EXCEPT !.pc = "GetPid"] ELSE NoSample)
    /\ UNCHANGED <<procVars, topVars, ioVars, trk, gps, netc, hw>>

\* pidFill, line 239: last, ok := ProcsMap.GetPid(pid)
ReadLast(t) ==
    LET c == race.callers[t] IN
    /\ c.pc = "GetPid"
    /\ SetSampler(t, [c EXCEPT !.pc = "SampleTime", !.last = race.entry])
    /\ UNCHANGED <<procVars, topVars, ioVars, trk, gps, netc, hw>>

\* pidFill, line 240: status.SampleTime = time.Now(), on a clock that never
\* gives the same time twice
StampSample(t) ==
    LET c == race.callers[t] IN
    /\ c.pc = "SampleTime"
    /\ race.clock < MaxSamples
    /\ race' = [race EXCEPT !.clock = @ + 1,
                            !.callers[t] = [c EXCEPT !.pc = "post", !.SampleTime = race.clock + 1]]
    /\ UNCHANGED <<procVars, topVars, ioVars, trk, gps, netc, hw>>

\* pidFill, lines 241-277, and GetOne, lines 166-168: an error returns
\* without a write
PostSample(t) ==
    LET c == race.callers[t] IN
    /\ c.pc = "post"
    /\ \E ok \in BOOLEAN :
          SetSampler(t, IF ok THEN [c EXCEPT !.pc = "SetPid"] ELSE NoSample)
    /\ UNCHANGED <<procVars, topVars, ioVars, trk, gps, netc, hw>>

\* GetOne, line 170: ProcsMap.SetPid(pid, pidStat), and the return
StoreSample(t) ==
    LET c == race.callers[t] IN
    /\ c.pc = "SetPid"
    /\ race' = [race EXCEPT !.entry = c.SampleTime,
                            !.newest = Max(@, c.SampleTime),
                            !.callers[t] = NoSample]
    /\ UNCHANGED <<procVars, topVars, ioVars, trk, gps, netc, hw>>

InitRace ==
    /\ race = RaceIdle
    /\ cfg = IdleCfg
    /\ procs = [p \in PIDs |-> NoProc]
    /\ epoch = 0
    /\ history = <<>>
    /\ ret = IdleRet
    /\ topCfg = [Enabled |-> FALSE, ByCPU |-> 0, ByMemory |-> 0]
    /\ topIn = <<>>
    /\ topOut = TopNotRun
    /\ ioFile = <<>>
    /\ ioResolve = FALSE
    /\ ioFound = {}
    /\ ioPos = 0
    /\ ioStats = <<>>
    /\ ioRet = IONotDone
    /\ ioHost = IOHostIdle
    /\ ioSub = IOSubIdle
    /\ trk = TrkIdle
    /\ gps = GpsIdle
    /\ netc = NetIdle
    /\ hw = HwIdle

NextRace ==
    \E t \in Threads :
        GetOneBegin(t) \/ ReadLast(t) \/ StampSample(t) \/ PostSample(t) \/ StoreSample(t)

Next == Get \/ GetOne \/ GetSelf \/ Exit \/ Spawn \/ Exec

vars == <<procVars, topVars, ioVars, auxVars>>

Spec == InitProc /\ [][Next]_vars

SpecRoot == InitRoot /\ [][Next]_vars

SpecTop == InitTop /\ [][SelectTop]_vars

SpecIO == InitIO /\ [][NextIO]_vars

SpecTrk == InitTrk /\ [][NextTrk]_vars

SpecGps == InitGps /\ [][NextGps]_vars

SpecNet == InitNet /\ [][MapProcNetCountersWithFilter]_vars

SpecHw == InitHw /\ [][ReportSensors]_vars

SpecRace == InitRace /\ [][NextRace]_vars

\* ------------------------------------------------------- checked properties
HasStep(f, step) == \E i \in 1..Len(f.steps) : f.steps[i] = step

\* The calls pidFill makes after the name filter.
AfterFilter ==
    {"FillPidMetrics", "FillPidMetrics!err", "GetPid", "GetStatsForPid",
     "GetStatsForPid!err", "FillPercentages", "NetworkCounters", "NetworkCounters!err",
     "GetProcCPUPercentage"}

\* The name is matched by one of the configured patterns.
MatchesSomePattern(name) == \E i \in DOMAIN cfg.Procs : name \in cfg.Procs[i]

\* The PIDs the last call took a sample of (GetInfoForPid returned a process).
Sampled == {p \in DOMAIN ret.fills : HasStep(ret.fills[p], "GetInfoForPid")}

\* C3: pidFill with filter=true (as Get calls it) for a process whose name
\* matches none of the patterns returns saved=false and no error, and makes
\* none of the calls that follow the filter: FillPidMetrics, GetStatsForPid,
\* the network counters, the CPU percentage.
C3_FilterShortCircuit ==
    ret.op = "Get" =>
        \A p \in Sampled :
            ~MatchesSomePattern(procs[p].name) =>
                /\ ~ret.fills[p].saved
                /\ ret.fills[p].err = ""
                /\ \A i \in 1..Len(ret.fills[p].steps) :
                       ret.fills[p].steps[i] \notin AfterFilter

C3_Witness ==
    /\ ret.op = "Get"
    /\ \E p \in Sampled : ~MatchesSomePattern(procs[p].name)
    /\ \E p \in Sampled : HasStep(ret.fills[p], "FillPidMetrics")

\* C6 (as claimed): a Get that could list the PIDs returns no error and an
\* event for every process it sampled and selected, whatever failed for any
\* single PID while sampling or converting.
C6_BatchNeverAborts ==
    (ret.op = "Get" /\ ret.err # "error gathering PIDs") =>
        /\ ret.err = ""
        /\ \A i \in 1..Len(ret.plist) :
              \E j \in 1..Len(ret.events) :
                  ret.events[j]["pid"] = ValueOr(ret.plist[i].Pid, 0)

\* C7: with cgroups enabled, a GetStatsForPid error is the error of pidFill
\* and the last call it makes (no network fetch, no CPU percentage); with
\* cgroups disabled GetStatsForPid is never called.
C7_CgroupErrorIsHard ==
    \A p \in DOMAIN ret.fills :
        LET f == ret.fills[p] IN
        /\ HasStep(f, "GetStatsForPid!err") =>
              /\ f.err # ""
              /\ f.steps[Len(f.steps)] = "GetStatsForPid!err"
              /\ ~HasStep(f, "NetworkCounters") /\ ~HasStep(f, "NetworkCounters!err")
              /\ ~HasStep(f, "GetProcCPUPercentage")
              /\ \A i \in 1..Len(ret.events) : ret.events[i]["pid"] # p
        /\ ~cfg.EnableCgroups =>
              ~HasStep(f, "GetStatsForPid") /\ ~HasStep(f, "GetStatsForPid!err")

C7_Witness ==
    /\ cfg.EnableCgroups
    /\ \E p \in DOMAIN ret.fills : HasStep(ret.fills[p], "GetStatsForPid!err")
    /\ \E p \in DOMAIN ret.fills : HasStep(ret.fills[p], "GetProcCPUPercentage")

PctKeys == {"cpu.total.pct", "cgroup.cpu.pct"}

\* C8: a sample of a PID the history held no entry for when the call began has
\* its CPU and cgroup percentages unset, in the ProcState and (as absent keys,
\* not zeros) in the event.
C8_PctOnlyAfterPrevious ==
    /\ \A p \in DOMAIN ret.fills :
          p \notin DOMAIN ret.before =>
              ~ret.fills[p].status.Pct.set /\ ~ret.fills[p].status.Cgroup.pct.set
    /\ \A i \in 1..Len(ret.plist) :
          ValueOr(ret.plist[i].Pid, 0) \notin DOMAIN ret.before =>
              ~ret.plist[i].Pct.set /\ ~ret.plist[i].Cgroup.pct.set
    /\ \A i \in 1..Len(ret.events) :
          ret.events[i]["pid"] \notin DOMAIN ret.before =>
              PctKeys \cap DOMAIN ret.events[i] = {}

C8_Witness ==
    /\ ret.op = "Get"
    /\ \E i \in 1..Len(ret.events) : ret.events[i]["pid"] \notin DOMAIN ret.before
    /\ \E i \in 1..Len(ret.events) : "cpu.total.pct" \in DOMAIN ret.events[i]

\* C9 (as claimed): a sample of a PID whose history entry has another start
\* time is a first sample: no percentage is set from the stale entry and
\* nothing of the stale entry is carried into it.
C9_ReusedPidIsFirstSample ==
    \A p \in DOMAIN ret.fills :
        LET f == ret.fills[p] IN
        (/\ f.err = "" /\ f.saved /\ ~cfg.skipExtended
         /\ p \in DOMAIN ret.before
         /\ ret.before[p].StartTime # procs[p].start) =>
            /\ ~f.status.Pct.set
            /\ ~f.status.Cgroup.pct.set
            /\ f.status.Env = EnvOf(p)
            /\ f.status.Args = ArgsOf(p)

C13_NoPatternsOptOut ==
    /\ (ret.op = "Get" /\ Len(cfg.Procs) = 0) =>
          /\ ret.err = ""
          /\ ret.events = <<>>
          /\ ret.plist = <<>>
          /\ ret.fills = NoFills
          /\ history = ret.before
    /\ Len(cfg.Procs) = 0 => \A name \in Names : ~matchProcess(name)

\* Get without patterns, called with a sample in the history and processes
\* running.
C13_Witness ==
    /\ ret.op = "Get" /\ Len(cfg.Procs) = 0
    /\ history # <<>>
    /\ \E p \in PIDs : procs[p].alive /\ p \notin DOMAIN history

\* C17: GetOne for a running process whose name matches none of the
\* configured patterns returns no event and stores no sample in the history.
C17_GetOneOnlyMatching ==
    (ret.op = "GetOne" /\ procs[ret.pid].alive /\ ~MatchesSomePattern(procs[ret.pid].name)) =>
        /\ ret.events = <<>>
        /\ history = ret.before

\* ---- includeTopProcesses
PidsOf(s) == {ValueOr(s[i].Pid, 0) : i \in 1..Len(s)}
NoPidTwice(s) == \A i, j \in 1..Len(s) : i # j => s[i].Pid # s[j].Pid
\* The list is in descending order of CPU percentage (an unset one counts 0).
DescByCPU(s) == \A i, j \in 1..Len(s) : i < j => CPUKey(s[i]) >= CPUKey(s[j])
DescByMem(s) == \A i, j \in 1..Len(s) : i < j => MemKey(s[i]) >= MemKey(s[j])

RECURSIVE Without(_, _)
\* s without the elements whose PID is in pids, order kept
Without(s, pids) ==
    IF s = <<>> THEN <<>>
    ELSE IF ValueOr(Head(s).Pid, 0) \in pids THEN Without(Tail(s), pids)
    ELSE <<Head(s)>> \o Without(Tail(s), pids)

\* t is the first k of the input in descending order of CPU percentage
\* (byCPU) or of RSS: k processes of the input, in descending order, and no
\* process left out has more than one of them.
FirstOfInput(t, k, byCPU) ==
    LET key(p) == IF byCPU THEN (IF p.Pct.set THEN p.Pct.v ELSE 0)
                  ELSE (IF p.Rss.set THEN p.Rss.v ELSE 0)
    IN /\ Len(t) = k
       /\ NoPidTwice(t)
       /\ \A i \in 1..k : \E j \in 1..Len(topIn) : t[i] = topIn[j]
       /\ \A i, j \in 1..k : i < j => key(t[i]) >= key(t[j])
       /\ \A j \in 1..Len(topIn) :
             (\A i \in 1..k : t[i].Pid # topIn[j].Pid) =>
                 \A i \in 1..k : key(t[i]) >= key(topIn[j])

\* The list of the example: A leads by CPU, B by memory, C is second by memory.
ExampleABC == <<TopProc(1, Some(2), 1), TopProc(2, Some(1), 3), TopProc(3, None, 2)>>

\* C4: with ByCPU = c > 0 and ByMemory = m > 0 the result is the first c of
\* the input in descending CPU order, followed by the first m of the input in
\* descending RSS order that are not among them; no process is there twice;
\* the example gives A, B, C.
C4_TopNUnion ==
    (topOut.done /\ topCfg.Enabled /\ topCfg.ByCPU > 0 /\ topCfg.ByMemory > 0) =>
        LET n == Len(topIn)
            c == Min(topCfg.ByCPU, n)
            m == Min(topCfg.ByMemory, n)
            r == topOut.result
        IN
        /\ Len(r) >= c
        /\ NoPidTwice(r)
        /\ FirstOfInput(SubSeq(r, 1, c), c, TRUE)
        /\ \E byMem \in [1..m -> {topIn[i] : i \in 1..n}] :
              /\ FirstOfInput(byMem, m, FALSE)
              /\ SubSeq(r, c + 1, Len(r)) = Without(byMem, PidsOf(SubSeq(r, 1, c)))
        /\ (topIn = ExampleABC /\ topCfg.ByCPU = 2 /\ topCfg.ByMemory = 2) => r = ExampleABC

C4_Witness ==
    /\ topOut.done /\ topCfg.Enabled /\ topCfg.ByCPU = 2 /\ topCfg.ByMemory = 2
    /\ topIn = ExampleABC
    /\ topOut.result = ExampleABC

\* C5: with both selectors zero, and with Enabled false whatever the selectors
\* are, the list returned is the list passed in.
C5_DisabledReturnsInput ==
    (topOut.done /\ (~topCfg.Enabled \/ (topCfg.ByCPU = 0 /\ topCfg.ByMemory = 0))) =>
        topOut.result = topIn

C5_Witness ==
    /\ topOut.done /\ ~topCfg.Enabled /\ topCfg.ByCPU > 0 /\ topCfg.ByMemory > 0
    /\ Len(topIn) = MaxProcs /\ ~DescByCPU(topIn) /\ ~DescByMem(topIn)
    /\ topOut.result = topIn

\* ------------------------------------------------------------ io.stat
LineAt(i) == StatLines[ioFile[i]]

\* The key a device ID is stored under: its name where resolveDevIDs is set
\* and the host resolves it, the ID as written otherwise.
ExpectedKey(d) ==
    IF ioResolve /\ <<d.major, d.minor>> \in ioFound THEN DevName(d.major, d.minor)
    ELSE d.tok

KeysOf(i) == {ExpectedKey(LineAt(i).devs[k]) : k \in 1..Len(LineAt(i).devs)}

MetricLines == {i \in 1..ioPos : LineAt(i).metrics}
DeviceOnlyLines == {i \in 1..ioPos : ~LineAt(i).metrics /\ Len(LineAt(i).devs) >= 1}

\* C1: when getIOStats has read a line with n >= 1 device IDs and counters, the
\* stats map has exactly one entry per device ID of the line and each of them
\* is the IOStat of that line (until a later line lists the device again); the
\* map has no other entry, and it is the map getIOStats returns.
C1_FanOut ==
    /\ \A i \in MetricLines : \A key \in KeysOf(i) :
          /\ key \in DOMAIN ioStats
          /\ (\A j \in MetricLines : j > i => key \notin KeysOf(j))
                => ioStats[key] = LineAt(i).stat
    /\ DOMAIN ioStats = UNION {KeysOf(i) : i \in MetricLines}
    /\ (ioRet.done /\ ~ioRet.err) => ioRet.stats = ioStats

C1_Witness ==
    /\ ioRet.done /\ ~ioRet.err
    /\ ioResolve /\ ioFound # {} /\ ioFound # StatDevices
    /\ \E i \in MetricLines :
          /\ Len(LineAt(i).devs) = 3
          /\ Cardinality(KeysOf(i)) = 3
          /\ \A key \in KeysOf(i) : ioRet.stats[key] = MkIOStat(52, 78, 0, 0, 0, 0)
    /\ Cardinality(DOMAIN ioRet.stats) = 4

RECURSIVE scanAll(_, _)
\* the stats map of a file made of the given lines
scanAll(stats, lines) ==
    IF lines = <<>> THEN stats
    ELSE scanAll(scanLine(stats, StatLines[Head(lines)].text, ioResolve, DevLookup).stats,
                 Tail(lines))

HasCounters(n) == StatLines[n].metrics

\* C2: a line of device IDs without counters is skipped: no error is returned
\* at it, it adds no entry, and the stats map is the one of the file without
\* the lines of that kind.
C2_DeviceOnlyLineSkipped ==
    /\ ioRet.isNil => (ioPos < Len(ioFile) /\ LineAt(ioPos + 1).bad)
    /\ \A i \in DeviceOnlyLines : \A key \in KeysOf(i) :
          key \in DOMAIN ioStats => \E j \in MetricLines : key \in KeysOf(j)
    /\ ioStats = scanAll(<<>>, SelectSeq(SubSeq(ioFile, 1, ioPos), HasCounters))

C2_Witness ==
    /\ ioRet.done /\ ~ioRet.err
    /\ DeviceOnlyLines = {1}
    /\ MetricLines = {2}
    /\ KeysOf(1) \cap KeysOf(2) = {}
    /\ DOMAIN ioRet.stats = KeysOf(2)

\* ------------------------------------------------------------ ProcsTrack
InMap(t) == trk.callers[t].pc \in ReadPcs \cup {WritePc}
Writing(t) == trk.callers[t].pc = WritePc

\* C11: with Get, GetOne and GetSelf called concurrently on one Stats, no two
\* callers are inside the history map at the same time when one of them writes.
C11_MapAccessExclusive ==
    \A t1, t2 \in Threads : (t1 # t2 /\ InMap(t1) /\ InMap(t2)) => (~Writing(t1) /\ ~Writing(t2))

\* A Get is writing the map while a GetOne waits to read it.
C11_Witness ==
    \E t1, t2 \in Threads :
        /\ Writing(t1) /\ trk.callers[t1].op = "Get"
        /\ trk.callers[t2].op = "GetOne" /\ trk.callers[t2].pc = "GetPid"

\* ------------------------------------------------------------ GetPIDState
\* C12: when GetPIDState finds that the PID does not exist, also when the
\* process exits between the existence check and the GetInfoForPid read, it
\* returns ProcNotExist and no other error.
C12_MissingPidIsProcNotExist ==
    (gps.pc = "done" /\ gps.ret.missing) => gps.ret.err = ProcNotExist

\* ------------------------------------------------------ IOSubsystem.Get
\* io.stat was opened: getIOStats did not fail before the first line.
IOOpened == ioRet.done /\ ~(ioRet.err /\ ~ioRet.isNil)

\* C14: if a line of io.stat holds a device token that is not <uint>:<uint>,
\* or a counter whose value is no unsigned integer, getIOStats returns an
\* error and a nil map, and IOSubsystem.Get returns an error without looking
\* at io.pressure.
C14_MalformedLineIsHardError ==
    (IOOpened /\ \E i \in 1..Len(ioFile) : LineAt(i).bad) =>
        /\ ioRet.err /\ ioRet.isNil
        /\ ioSub.pc = "done" => (ioSub.err # "" /\ ~ioSub.statCalled /\ ~ioSub.parsed)

\* C15: when io.stat parses and io.pressure does not exist, Get returns no
\* error, Stats is the map of io.stat and Pressure stays unset; io.pressure
\* is parsed only after the existence check, and only when that did not
\* report the file missing.
C15_MissingPressureSkipped ==
    ioSub.pc = "done" =>
        /\ (~ioRet.err /\ ioHost.pressure = "missing") =>
              /\ ioSub.err = ""
              /\ ~ioSub.statsNil /\ ioSub.Stats = ioStats
              /\ ioSub.Pressure = "unset"
        /\ ioSub.parsed => (ioSub.statCalled /\ ioHost.pressure # "missing")

C15_Witness ==
    /\ ioSub.pc = "done" /\ ioSub.err = ""
    /\ ioHost.pressure = "missing"
    /\ ioSub.statCalled /\ ~ioSub.parsed
    /\ Cardinality(DOMAIN ioSub.Stats) >= 3

\* The lookup of the device gives a name: resolveDevIDs is set, the host
\* resolves the device and the lookup does not fail.
Resolves(major, minor) ==
    ioResolve /\ <<major, minor>> \in ioFound /\ <<major, minor>> \notin ioHost.lookupErr

\* C16: a device of a line is stored under its name only when resolveDevIDs
\* is set and the lookup found it, and under the token as written in every
\* other case; a lookup that fails makes no line an error.
C16_KeyFallback ==
    /\ \A i \in MetricLines : \A k \in 1..Len(LineAt(i).devs) :
          LET d == LineAt(i).devs[k] IN
          IF Resolves(d.major, d.minor) THEN DevName(d.major, d.minor) \in DOMAIN ioStats
          ELSE d.tok \in DOMAIN ioStats
    /\ \A dv \in StatDevices :
          DevName(dv[1], dv[2]) \in DOMAIN ioStats => Resolves(dv[1], dv[2])
    /\ ioRet.isNil => LineAt(ioPos + 1).bad

\* One line with a device that resolves, one whose lookup fails and one the
\* host does not know.
C16_Witness ==
    /\ ioRet.done /\ ~ioRet.err
    /\ ioResolve /\ ioFound = {<<7, 7>>, <<7, 3>>} /\ ioHost.lookupErr = {<<7, 6>>, <<8, 0>>}
    /\ DOMAIN ioRet.stats = {DevName(7, 7), <<"7", ":", "6">>, <<"7", ":", "5">>}

\* ----------------------------------------------------- IgnoreRootCgroups
\* C18: with cgroups enabled and IgnoreRootCgroups set, a process whose
\* cgroup path is the root of the hierarchy is still sampled once pidFill has
\* asked for its cgroup statistics: the fill has no error, the sample carries
\* no cgroup statistics, and the PID is in the history after the call.
C18_RootCgroupNotAFailure ==
    \A p \in DOMAIN ret.fills :
        LET f == ret.fills[p] IN
        ( /\ cfg.EnableCgroups /\ cfg.IgnoreRootCgroups
          /\ CgroupPathOf(p) = "/"
          /\ HasStep(f, "GetStatsForPid") \/ HasStep(f, "GetStatsForPid!err") )
        => /\ f.err = ""
           /\ ~f.status.Cgroup.set
           /\ p \in DOMAIN history

\* ------------------------------------------------------------ combineMap
\* the two maps combineMap is given for a group of the event
GroupMaps(g) ==
    CASE g = "ip" -> <<netc.raw.Netstat.IPExt, netc.raw.SNMP.IP>>
      [] g = "tcp" -> <<netc.raw.Netstat.TCPExt, netc.raw.SNMP.TCP>>
      [] g = "icmp" -> <<netc.raw.SNMP.ICMPMsg, netc.raw.SNMP.ICMP>>
CombinedGroups == {"ip", "tcp", "icmp"}

Unfiltered == netc.filter = <<>> \/ netc.filter[1] = "all"
FilterSet == {netc.filter[i] : i \in 1..Len(netc.filter)}

\* the keys the group must have
GroupKeys(g) ==
    LET both == (DOMAIN GroupMaps(g)[1]) \cup (DOMAIN GroupMaps(g)[2])
    IN IF Unfiltered THEN both ELSE both \cap FilterSet

\* the counter of a key: that of map2 when both maps have the key
CounterOf(g, k) ==
    IF k \in DOMAIN GroupMaps(g)[2] THEN GroupMaps(g)[2][k] ELSE GroupMaps(g)[1][k]

\* C19 as stated: the key set is the union of the two key sets when the filter
\* is empty or starts with "all" and the filter keys found in either map
\* otherwise, and every value is the counter of its key, map2's when both
\* maps have the key.
C19_ValueIsCounter ==
    netc.done =>
        \A g \in CombinedGroups :
            /\ DOMAIN netc.out[g] = GroupKeys(g)
            /\ \A k \in GroupKeys(g) : netc.out[g][k] = CounterOf(g, k)

\* C19 amended: the key sets are as stated, and every value is the counter of
\* its key (map2's when both maps have the key), except that the value of
\* "MaxConn" is that counter read as a signed integer: a counter with the top
\* bit set comes out negative.
C19_CombineMap ==
    netc.done =>
        \A g \in CombinedGroups :
            /\ DOMAIN netc.out[g] = GroupKeys(g)
            /\ \A k \in GroupKeys(g) :
                  netc.out[g][k] =
                      IF k = "MaxConn" /\ CounterOf(g, k) >= 2^(CounterBits - 1)
                      THEN CounterOf(g, k) - 2^CounterBits
                      ELSE CounterOf(g, k)

C19_Witness ==
    /\ netc.done
    /\ ~Unfiltered
    /\ \E k \in (DOMAIN netc.raw.Netstat.TCPExt) \cap (DOMAIN netc.raw.SNMP.TCP) :
          /\ netc.raw.Netstat.TCPExt[k] # netc.raw.SNMP.TCP[k]
          /\ k \in DOMAIN netc.out["tcp"]
    /\ \E k \in DOMAIN netc.raw.SNMP.TCP : k \notin DOMAIN netc.out["tcp"]
    /\ \E k \in FilterSet : k \notin DOMAIN netc.out["tcp"]

\* --------------------------------------------------------- ReportSensors
\* the sensors whose input file is there and holds a number
ReadableSensors ==
    {i \in 1..Len(hw.Sensors) :
        hw.files[i].input.state = "ok" /\ ParseInt(hw.files[i].input.text).ok}

\* every file of the directory is either absent or can be read
FilesAbsentOrReadable ==
    \A i \in 1..Len(hw.Sensors) :
        /\ hw.files[i].label.state \in {"absent", "ok"}
        /\ hw.files[i].input.state = "absent" \/ i \in ReadableSensors

\* C20: on a device whose label and input files are each absent or readable,
\* ReportSensors returns without error a map with as many entries as there
\* are sensors with a readable input file.
C20_OneEntryPerReadableSensor ==
    (hw.ret.done /\ FilesAbsentOrReadable) =>
        /\ hw.ret.err = ""
        /\ ~hw.ret.isNil
        /\ Cardinality(DOMAIN hw.ret.metrics) = Cardinality(ReadableSensors)

\* the sensors Fetch fails on for good: a label that is there and cannot be
\* read, or an input that is there and is unreadable or no number
HardSensors ==
    {i \in 1..Len(hw.Sensors) :
        \/ hw.files[i].label.state = "unreadable"
        \/ hw.files[i].input.state = "unreadable"
        \/ hw.files[i].input.state = "ok" /\ ~ParseInt(hw.files[i].input.text).ok}

\* the key ReportSensors files sensor i under
KeyOfSensor(i) ==
    labelName(IF hw.files[i].label.state = "ok" THEN hw.files[i].label.text
              ELSE hw.Sensors[i].DevType.fileKey \o <<"_">> \o DigitsOf(hw.Sensors[i].SensorNum))

\* C21: ReportSensors returns a nil map and an error when Fetch fails on some
\* sensor for another reason than a missing input file; otherwise it returns
\* without error, every sensor with an input is reported, a sensor without
\* one is left out, and a missing crit, max, lowest or average file only
\* leaves that field unset.
C21_MissingInputIsSoft ==
    hw.ret.done =>
        IF HardSensors # {}
        THEN hw.ret.isNil /\ hw.ret.err # ""
        ELSE /\ ~hw.ret.isNil /\ hw.ret.err = ""
             /\ \A i \in ReadableSensors :
                   /\ KeyOfSensor(i) \in DOMAIN hw.ret.metrics
                   /\ \E j \in ReadableSensors :
                         /\ KeyOfSensor(j) = KeyOfSensor(i)
                         /\ LET m == hw.ret.metrics[KeyOfSensor(i)] IN
                            /\ hw.files[j].crit.state = "absent" => ~m.Critical.set
                            /\ hw.files[j].max.state = "absent" => ~m.Max.set
                            /\ hw.files[j].lowest.state = "absent" => ~m.Lowest.set
                            /\ hw.files[j].average.state = "absent" => ~m.Average.set
             /\ \A k \in DOMAIN hw.ret.metrics : \E i \in ReadableSensors : k = KeyOfSensor(i)

\* integer division that truncates toward zero
TruncDiv(a, b) == IF a >= 0 THEN a \div b ELSE 0 - ((0 - a) \div b)

\* the value a sensor file holding a number must be reported as
ExpectedValue(st, file) ==
    IF st = TempSensor THEN TruncDiv(ParseInt(file.text).v, 1000) ELSE ParseInt(file.text).v

HoldsNumber(file) == file.state = "ok" /\ ParseInt(file.text).ok

\* C22: in what ReportSensors returns, the value of a temperature sensor and
\* its crit, max, lowest and average are the number of the file divided by
\* 1000 and truncated, and those of a voltage or fan sensor are the number of
\* the file, for negative numbers too.
C22_WholeDegrees ==
    (hw.ret.done /\ ~hw.ret.isNil) =>
        \A i \in ReadableSensors :
            (\A j \in ReadableSensors : KeyOfSensor(j) = KeyOfSensor(i) => j = i) =>
                LET m == hw.ret.metrics[KeyOfSensor(i)]
                    st == hw.Sensors[i].DevType
                    f == hw.files[i]
                IN /\ m.Value = Some(ExpectedValue(st, f.input))
                   /\ HoldsNumber(f.crit) => m.Critical = Some(ExpectedValue(st, f.crit))
                   /\ HoldsNumber(f.max) => m.Max = Some(ExpectedValue(st, f.max))
                   /\ HoldsNumber(f.lowest) => m.Lowest = Some(ExpectedValue(st, f.lowest))
                   /\ HoldsNumber(f.average) => m.Average = Some(ExpectedValue(st, f.average))

\* ---------------------------------------------------- the order of pidFill
\* the place of a call in pidFill; a call that failed has the place of the call
StepRank(step) ==
    CASE step \in {"GetInfoForPid", "GetInfoForPid!err"} -> 1
      [] step = "cacheCmdLine" -> 2
      [] step = "matchProcess" -> 3
      [] step \in {"FillPidMetrics", "FillPidMetrics!err"} -> 4
      [] step = "GetPid" -> 5
      [] step \in {"GetStatsForPid", "GetStatsForPid!err"} -> 6
      [] step = "FillPercentages" -> 7
      [] step \in {"NetworkCounters", "NetworkCounters!err"} -> 8
      [] step = "GetProcCPUPercentage" -> 9

\* the calls whose error is the error of pidFill
HardErrors == {"GetInfoForPid!err", "FillPidMetrics!err", "GetStatsForPid!err"}

\* C23: the calls of one pidFill are made in the order GetInfoForPid, name
\* filter, FillPidMetrics, cgroup read, CPU percentage; a call is made only
\* after the earlier ones succeeded, and a call that fails is the last one
\* and gives pidFill its error.
C23_StepOrder ==
    \A p \in DOMAIN ret.fills :
        LET f == ret.fills[p]
            s == f.steps
        IN /\ \A i, j \in 1..Len(s) : i < j => StepRank(s[i]) < StepRank(s[j])
           /\ \A i \in 1..Len(s) : s[i] \in HardErrors => i = Len(s) /\ f.err # ""
           /\ f.err # "" => s # <<>> /\ s[Len(s)] \in HardErrors
           /\ Len(s) > 1 => s[1] = "GetInfoForPid"
           /\ ~f.saved => s[Len(s)] = "matchProcess"
           /\ (HasStep(f, "GetStatsForPid") \/ HasStep(f, "GetStatsForPid!err")) =>
                 HasStep(f, "FillPidMetrics")
           /\ HasStep(f, "GetProcCPUPercentage") =>
                 /\ HasStep(f, "FillPidMetrics")
                 /\ cfg.EnableCgroups => HasStep(f, "GetStatsForPid")

C23_Witness ==
    /\ \E p \in DOMAIN ret.fills :
          /\ HasStep(ret.fills[p], "matchProcess")
          /\ HasStep(ret.fills[p], "GetStatsForPid")
          /\ HasStep(ret.fills[p], "GetProcCPUPercentage")
    /\ \E p \in DOMAIN ret.fills : HasStep(ret.fills[p], "FillPidMetrics!err")

\* ------------------------------------------------------ history after a call
\* C24: after a call, the history entry of every PID the call sampled without
\* error (and, in Get, matched) is the sample of that call, whatever happened
\* to the other PIDs; GetOne and GetSelf leave the entries of the other PIDs
\* as they were.
C24_HistoryIsNewSample ==
    /\ \A p \in DOMAIN ret.fills :
          (ret.fills[p].err = "" /\ ret.fills[p].saved) =>
              p \in DOMAIN history /\ history[p] = ret.fills[p].status
    /\ ret.op \in {"GetOne", "GetSelf"} =>
          \A p \in PIDs \ {ret.pid} :
              /\ p \in DOMAIN history <=> p \in DOMAIN ret.before
              /\ p \in DOMAIN history => history[p] = ret.before[p]

\* a second sample of a PID replaces the first while another PID fails
C24_Witness ==
    /\ ret.op = "Get"
    /\ \E p \in DOMAIN ret.fills :
          /\ ret.fills[p].err = "" /\ ret.fills[p].saved
          /\ p \in DOMAIN ret.before
          /\ ret.before[p] # history[p]
    /\ \E q \in DOMAIN ret.fills : ret.fills[q].err # ""

\* ---------------------------------------------------------- ties in top-N
\* the input sorted by descending key with ties left in input order
StableSorted(s, byCPU) ==
    LET key(p) == IF byCPU THEN ValueOr(p.Pct, 0) ELSE ValueOr(p.Rss, 0)
        place(i) == Cardinality({j \in 1..Len(s) : key(s[j]) > key(s[i])})
                    + Cardinality({j \in 1..(i - 1) : key(s[j]) = key(s[i])}) + 1
    IN [r \in 1..Len(s) |-> s[CHOOSE i \in 1..Len(s) : place(i) = r]]

\* C25: with top-N selection on, the result is the first ByCPU processes of
\* the input sorted by CPU percentage, followed by those of the first ByMemory
\* processes of the input sorted by RSS that are not among them, where both
\* sorts leave processes that tie in their input order.
C25_TiesKeepInputOrder ==
    (topOut.done /\ topCfg.Enabled /\ (topCfg.ByCPU > 0 \/ topCfg.ByMemory > 0)) =>
        LET n == Len(topIn)
            byCPU == SubSeq(StableSorted(topIn, TRUE), 1, Min(topCfg.ByCPU, n))
            byMem == SubSeq(StableSorted(topIn, FALSE), 1, Min(topCfg.ByMemory, n))
        IN topOut.result = byCPU \o Without(byMem, PidsOf(byCPU))

\* ------------------------------------------------- CPUTicks and the history
\* C26: with CPUTicks off, after Get or GetOne no event of the call has the
\* tick counter, and the history entry of every PID the call filled and stored
\* still holds the counter the operating system reported.
C26_TicksStayInHistory ==
    (~cfg.CPUTicks /\ ret.op \in {"Get", "GetOne"}) =>
        /\ \A i \in 1..Len(ret.events) : "cpu.total.ticks" \notin DOMAIN ret.events[i]
        /\ \A p \in DOMAIN ret.fills :
              LET f == ret.fills[p] IN
              (f.err = "" /\ f.saved /\ HasStep(f, "FillPidMetrics")) =>
                  /\ p \in DOMAIN history
                  /\ history[p].Ticks = Some(procs[p].ticks)

C26_Witness ==
    /\ ~cfg.CPUTicks /\ ret.op = "GetOne" /\ ret.err = ""
    /\ Len(ret.events) = 1
    /\ "cpu.total.ticks" \notin DOMAIN ret.events[1]
    /\ "cpu.total.pct" \in DOMAIN ret.events[1]
    /\ history[ret.pid].Ticks.set

\* ------------------------------------------------- concurrent GetOne calls
\* C27: whenever no GetOne is running, the history entry of the PID is the
\* sample with the latest SampleTime of all that were stored.
C27_LatestSampleWins ==
    (\A t \in Threads : race.callers[t].pc = "idle") => race.entry = race.newest

\* ------------------------------------------------------- bounds of top-N
\* C28: with top-N selection on, the result holds processes of the input
\* only, no PID twice, and at most min(len(input), ByCPU + ByMemory) of them;
\* a selector that is not smaller than the input selects the whole input.
C28_TopBounds ==
    (topOut.done /\ topCfg.Enabled /\ (topCfg.ByCPU > 0 \/ topCfg.ByMemory > 0)) =>
        LET r == topOut.result
            n == Len(topIn)
        IN /\ \A i \in 1..Len(r) : \E j \in 1..n : r[i] = topIn[j]
           /\ NoPidTwice(r)
           /\ Len(r) <= Min(n, topCfg.ByCPU + topCfg.ByMemory)
           /\ (topCfg.ByCPU >= n \/ topCfg.ByMemory >= n) => PidsOf(r) = PidsOf(topIn)

\* both selectors are larger than the input
C28_Witness ==
    /\ topOut.done /\ topCfg.Enabled
    /\ Len(topIn) = 1 /\ topCfg.ByCPU > 1 /\ topCfg.ByMemory > 1
    /\ topOut.result = topIn

\* ------------------------------------------------- a failed GetOne/GetSelf
\* C29: when the pidFill of GetOne or GetSelf returns an error, the call
\* returns that error and no event, and the history is what it was when the
\* call began.
C29_FailedCallKeepsHistory ==
    (ret.op \in {"GetOne", "GetSelf"} /\ ret.fills[ret.pid].err # "") =>
        /\ ret.err = ret.fills[ret.pid].err
        /\ ret.events = <<>>
        /\ history = ret.before

\* the cgroup read fails for a PID that has an entry
C29_Witness ==
    /\ ret.op \in {"GetOne", "GetSelf"}
    /\ HasStep(ret.fills[ret.pid], "GetStatsForPid!err")
    /\ ret.pid \in DOMAIN ret.before
    /\ history[ret.pid] = ret.before[ret.pid]

\* ------------------------------------------------------- udp and udp_lite
\* C30: whatever the filter, the udp and udp_lite groups are the raw SNMP UDP
\* and UDPLite counters, all of them and unchanged, while under a filter the
\* ip, tcp and icmp groups hold keys of the filter only.
C30_UDPNotFiltered ==
    netc.done =>
        /\ netc.out["udp"] = netc.raw.SNMP.UDP
        /\ netc.out["udp_lite"] = netc.raw.SNMP.UDPLite
        /\ ~Unfiltered => \A g \in CombinedGroups : DOMAIN netc.out[g] \subseteq FilterSet

\* a filter that names none of the UDP counters and cuts the tcp group
C30_Witness ==
    /\ netc.done /\ ~Unfiltered
    /\ FilterSet \cap DOMAIN netc.raw.SNMP.UDP = {}
    /\ DOMAIN netc.out["udp"] = {"InCsumErrors", "NoPorts"}
    /\ DOMAIN netc.out["udp_lite"] = {"InCsumErrors"}
    /\ \E k \in DOMAIN netc.raw.SNMP.TCP : k \notin DOMAIN netc.out["tcp"]

====
